---- MODULE Spec2Model ----
(***************************************************************************)
(* Verification model of shredstream-decoder.                              *)
(*                                                                         *)
(*   SpecFec   : shred ingestion, FEC-block assembly, completion, the      *)
(*               decode workers and the periodic garbage collector         *)
(*               (shreds_processing.rs, main.rs).                          *)
(*   SpecAlt   : the address-lookup-table cache and the resolution of a    *)
(*               transaction's keys by concurrent decode workers           *)
(*               (address_lookup_table_cache.rs).                          *)
(*   SpecRoles : the signer / writable derivation of one transaction       *)
(*               (shreds_processing.rs).                                   *)
(*   SpecTx    : extract_transactions_from_payload, the serial resolution  *)
(*               pass and the parallel decode and emission                 *)
(*               (shreds_processing.rs).                                   *)
(*   SpecParse : the byte-walker primitives (decoder/byte_parser.rs).      *)
(*   SpecStream: the broadcast channel and the gRPC streams                *)
(*               (main.rs, grpc_server.rs).                                *)
(*   SpecIngest: the receive loop and the garbage collector, step by step  *)
(*               (main.rs, shreds_processing.rs).                          *)
(***************************************************************************)
EXTENDS Integers, Sequences, FiniteSets, TLC

VARIABLES
    wire,              \* the shreds the network may deliver in this run
    fec_blocks,        \* DashMap<(slot, fec_set_index), FecBlock>
    processed_blocks,  \* DashSet<(slot, fec_set_index)>
    processed_age,     \* per entry of the set: seconds since it was inserted
    spawned,           \* per key: spawn_blocking closures not yet started
    running,           \* per key: closures past decode, before fec_blocks.remove
    decode_count,      \* per key: how many times decode_fec_block has run
    locked,            \* keys whose map shard is held by a blocked add_shred
    gc_due,            \* the garbage collector's 10 s sleep has elapsed
    gc_alive,          \* the garbage collector task has not panicked
    ev,                \* the last operation and what it returned
    \* signer / writable derivation
    role_in,           \* header, number of inline and of looked-up keys, build
    role_out,          \* is_signer and is_writable, or the panic
    \* extract_transactions_from_payload
    payload,           \* the reconstructed payload handed to the call
    tx_pc,             \* where the call is
    resolved_txs,      \* transactions_with_resolved_keys
    par_done,          \* items of the par_iter whose closure has run
    channel,           \* what broadcast_tx.send has pushed, in send order
    tx_ret,            \* the (slot, total_txs) returned
    tx_log,            \* the calls made on the transactions, in the order made
    \* address-lookup-table cache
    cache,             \* DashMap<Pubkey, LookupTableCacheEntry>
    chain,             \* per table: the number of addresses the RPC node holds
    alt_call,          \* per worker: its call into the cache, if any
    res,               \* the resolving worker: its transaction and resolved keys
    observed,          \* tables invalidated by a scan and not looked up since
    outdated_fetch,    \* workers whose RPC request predates a scan of its table
    outdated_entry,    \* tables whose cache entry came from such a request
    alt_ev,            \* the last cache operation and what it did
    \* byte walker
    data,              \* the instruction data being walked
    offset,            \* the walker's position in it
    parse_ev,          \* the last primitive called and what it returned
    \* broadcast channel and the gRPC streams
    buffer,            \* the channel's ring of slots
    tail,              \* the channel's next write position
    rx,                \* per client: its receiver and what its stream yielded
    send_log,          \* the values the channel accepted, by position
    send_ev,           \* the number of send calls and the last one's result
    \* the receive loop and the garbage collector, step by step
    ingress,           \* socket_task: where it is in collect_shred / add_shred
    gc_pc,             \* the garbage collector task: where it is in its round
    swept              \* keys a sweep removed from the ProcessedSet

fecVars == <<wire, fec_blocks, processed_blocks, processed_age, spawned, running,
             decode_count, locked, gc_due, gc_alive, ev>>

roleVars == <<role_in, role_out>>

txVars == <<payload, tx_pc, resolved_txs, par_done, channel, tx_ret, tx_log>>

altVars == <<cache, chain, alt_call, res, observed, outdated_fetch, outdated_entry, alt_ev>>

parseVars == <<data, offset, parse_ev>>

streamVars == <<buffer, tail, rx, send_log, send_ev>>

ingestVars == <<ingress, gc_pc, swept>>

vars == <<fecVars, roleVars, txVars, altVars, parseVars, streamVars, ingestVars>>

\* What the actions of one specification leave alone.
notFec == <<roleVars, txVars, altVars, parseVars, streamVars, ingestVars>>

notRoles == <<fecVars, txVars, altVars, parseVars, streamVars, ingestVars>>

notTx == <<fecVars, roleVars, altVars, parseVars, streamVars, ingestVars>>

notAlt == <<fecVars, roleVars, txVars, parseVars, streamVars, ingestVars>>

notParse == <<fecVars, roleVars, txVars, altVars, streamVars, ingestVars>>

notStream == <<fecVars, roleVars, txVars, altVars, parseVars, ingestVars>>

----------------------------------------------------------------------------
\* Bounds of the model.

\* data shreds the producer puts in one FEC set
NumData == 2
\* coding shreds the producer puts in one FEC set
NumCoding == 1
\* decode tasks that may be spawned for one key
MaxSpawns == 2
\* ages are tracked up to this many seconds; every threshold is below it
MaxAge == 40

\* Program constants.

\* Option::None of num_data_shreds, num_coding_shreds and collection_start
None == -1
\* the garbage collector sleeps 10 s; the clock advances in these steps
TickSecs == 10
\* fec_blocks.retain keeps blocks younger than 20 s
GcRetainSecs == 20
\* add_shred's in-line check expires blocks older than 30 s
ExpireSecs == 30
\* Instant::now() - 20 s, whose elapsed().as_secs() is compared with the key
ProcessedWindowSecs == 20

----------------------------------------------------------------------------
\* Shreds.  A shred carries slot, fec_set_index, index, kind, for coding
\* shreds the header counts, for data shreds the two flags, and a body.

Shred(s, f, i, t, nd, nc, last, dc) ==
    [slot |-> s, fec_set_index |-> f, index |-> i, shred_type |-> t,
     num_data |-> nd, num_coding |-> nc,
     last_in_slot |-> last, data_complete |-> dc,
     body |-> <<s, f, i, t>>]

KeyOf(sh) == <<sh.slot, sh.fec_set_index>>

\* The producer's FEC set for key k: NumData data shreds and NumCoding
\* coding shreds, indexed from the fec_set_index; the last data shred closes
\* the batch.
ProducedData(k) ==
    { Shred(k[1], k[2], k[2] + j, "Data", 0, 0,
            j = NumData - 1, j = NumData - 1) : j \in 0..(NumData - 1) }

ProducedCoding(k) ==
    { Shred(k[1], k[2], k[2] + j, "Code", NumData, NumCoding, FALSE, FALSE) :
        j \in 0..(NumCoding - 1) }

Produced(k) == ProducedData(k) \cup ProducedCoding(k)

\* A coding shred that is not the producer's: a further index and a header
\* that reports one data shred less.
ForgedCoding(k) ==
    { Shred(k[1], k[2], k[2] + NumCoding, "Code", NumData - 1, NumCoding,
            FALSE, FALSE) }

\* The producer's payload of the set: the bodies of its data shreds in
\* ascending index order.
OriginalPayload(k) ==
    [ j \in 1..NumData |-> <<k[1], k[2], k[2] + j - 1, "Data">> ]

\* The runs: one FEC set whose fec_set_index is at most 20, one whose
\* fec_set_index is above 20.
LowKey == <<1, 0>>
HighKey == <<1, 32>>

\* A third run mixes two slots that use the same fec_set_index: the set of
\* OtherSlotKey, and of LowKey its first data shred together with a second
\* data shred that claims the same index with another body and both flags.
OtherSlotKey == <<2, 0>>

ReplayedData(k) ==
    { [ Shred(k[1], k[2], k[2], "Data", 0, 0, TRUE, TRUE)
          EXCEPT !.body = <<k[1], k[2], k[2], "Replayed">> ] }

FirstData(k) == { sh \in ProducedData(k) : sh.index = k[2] }

Wires ==
    { Produced(LowKey) \cup ForgedCoding(LowKey),
      Produced(HighKey) \cup ForgedCoding(HighKey),
      FirstData(LowKey) \cup ReplayedData(LowKey) \cup Produced(OtherSlotKey) }

Keys == { LowKey, HighKey, OtherSlotKey }

----------------------------------------------------------------------------
\* FecBlock.

FecBlockNew_unslotted(slot, fec_set_index) ==
    [num_data_shreds |-> None, num_coding_shreds |-> None,
     data_shreds_collected |-> 0, coding_shreds_collected |-> 0,
     data_shreds |-> <<>>, coding_shreds |-> <<>>,
     fec_set_index |-> fec_set_index, slot |-> 0,
     collection_start |-> None, last_shred_in_slot |-> FALSE]

\* FecBlock::new
FecBlockNew(slot, fec_set_index) ==
    [num_data_shreds |-> None, num_coding_shreds |-> None,
     data_shreds_collected |-> 0, coding_shreds_collected |-> 0,
     data_shreds |-> <<>>, coding_shreds |-> <<>>,
     fec_set_index |-> fec_set_index, slot |-> slot,
     collection_start |-> None, last_shred_in_slot |-> FALSE]

\* HashMap::len
MapLen(m) == Cardinality(DOMAIN m)

\* HashMap::insert
MapInsert(m, i, v) == [ j \in (DOMAIN m) \cup {i} |-> IF j = i THEN v ELSE m[j] ]

\* DashMap::remove
MapRemove(m, k) == [ j \in (DOMAIN m) \ {k} |-> m[j] ]

\* FecBlock::is_complete, its return value.
is_complete_strict(b) ==
    IF b.num_data_shreds # None /\ b.num_coding_shreds # None
    THEN LET data_count == MapLen(b.data_shreds)
             coding_count == MapLen(b.coding_shreds)
             total_shreds == data_count + coding_count
             total_expected == b.num_data_shreds + b.num_coding_shreds
         IN  (data_count = b.num_data_shreds) \/ (total_shreds > total_expected)
    ELSE FALSE

is_complete(b) ==
    IF b.num_data_shreds # None /\ b.num_coding_shreds # None
    THEN LET data_count == MapLen(b.data_shreds)
             coding_count == MapLen(b.coding_shreds)
             total_shreds == data_count + coding_count
             total_expected == b.num_data_shreds + b.num_coding_shreds
         IN  (data_count = b.num_data_shreds) \/ (total_shreds >= total_expected)
    ELSE FALSE

\* get_coding_shred_header: the counts at 0x53 and 0x55 of the payload.
get_coding_shred_header(sh) ==
    [num_data_shreds |-> sh.num_data, num_coding_shreds |-> sh.num_coding]

\* The last operation: which one, on which key, and what it returned.
Event(op, key, outcome, complete, result) ==
    [op |-> op, key |-> key, outcome |-> outcome, complete |-> complete,
     result |-> result]

NoResult == [ok |-> FALSE, payload |-> <<>>, recovery |-> "none"]

NoEvent == Event("init", <<0, 0>>, "none", FALSE, NoResult)

----------------------------------------------------------------------------
\* Shredder::try_recovery (solana_ledger), by its contract: Reed-Solomon
\* rebuilds the missing data shreds of the producer's set from any NumData
\* of its shreds, and fails on fewer shreds or on a shred that is not of
\* the set.  The result lists the rebuilt data shreds.
try_recovery(all_shreds) ==
    IF all_shreds = {} THEN [ok |-> FALSE, shreds |-> {}]
    ELSE LET k == KeyOf(CHOOSE sh \in all_shreds : TRUE)
             have == { sh.index : sh \in { x \in all_shreds : x.shred_type = "Data" } }
             missing == { sh \in ProducedData(k) : sh.index \notin have }
         IN  IF /\ all_shreds \subseteq Produced(k)
                /\ \E sh \in all_shreds : sh.shred_type = "Code"
                /\ Cardinality(all_shreds) >= NumData
             THEN [ok |-> TRUE, shreds |-> missing]
             ELSE [ok |-> FALSE, shreds |-> {}]

\* The sequences that list every element of S once: the orders in which a
\* HashMap may yield its values.
Orderings(S) ==
    { q \in [1..Cardinality(S) -> S] :
        \A i, j \in 1..Cardinality(S) : i # j => q[i] # q[j] }

\* Vec::sort_by_key(|shred| shred.index()): a stable insertion sort.
RECURSIVE InsertByIndex(_, _)
InsertByIndex(sorted, sh) ==
    IF sorted = <<>> THEN <<sh>>
    ELSE IF sorted[Len(sorted)].index <= sh.index THEN Append(sorted, sh)
    ELSE Append(InsertByIndex(SubSeq(sorted, 1, Len(sorted) - 1), sh),
                sorted[Len(sorted)])

RECURSIVE SortByIndexFrom(_, _)
SortByIndexFrom(done, rest) ==
    IF rest = <<>> THEN done
    ELSE SortByIndexFrom(InsertByIndex(done, Head(rest)), Tail(rest))

sort_by_index_skipped(shreds) == shreds

sort_by_index(shreds) == SortByIndexFrom(<<>>, shreds)

\* reconstruct_full_payload: Shredder::deshred on the payloads in the given
\* order.  By its contract deshred concatenates the payload regions; it
\* fails on no shred and on shreds whose indices are not consecutive.
reconstruct_full_payload_truncated(shreds) ==
    IF shreds = <<>> THEN [ok |-> FALSE, payload |-> <<>>]
    ELSE IF \E i \in 1..(Len(shreds) - 1) : shreds[i + 1].index # shreds[i].index + 1
    THEN [ok |-> FALSE, payload |-> <<>>]
    ELSE [ok |-> TRUE, payload |-> [ i \in 1..(Len(shreds) - 1) |-> shreds[i].body ]]

reconstruct_full_payload(shreds) ==
    IF shreds = <<>> THEN [ok |-> FALSE, payload |-> <<>>]
    ELSE IF \E i \in 1..(Len(shreds) - 1) : shreds[i + 1].index # shreds[i].index + 1
    THEN [ok |-> FALSE, payload |-> <<>>]
    ELSE [ok |-> TRUE, payload |-> [ i \in 1..Len(shreds) |-> shreds[i].body ]]

\* decode_fec_block on a clone of the block; data_order and recovered_order
\* are the orders in which the map and the recovery yield their shreds.
decode_fec_block(fec_block, data_order, recovered_order) ==
    LET values == [ i \in 1..Len(data_order) |-> fec_block.data_shreds[data_order[i]] ]
        expected_data_shreds ==
            IF fec_block.num_data_shreds = None THEN 1 ELSE fec_block.num_data_shreds
        attempt == Len(values) < expected_data_shreds
        all_shreds_for_recovery ==
            { fec_block.data_shreds[i] : i \in DOMAIN fec_block.data_shreds }
            \cup { fec_block.coding_shreds[i] : i \in DOMAIN fec_block.coding_shreds }
        recovered == try_recovery(all_shreds_for_recovery)
        local_data_shreds ==
            IF attempt /\ recovered.ok
            THEN values \o [ i \in 1..Len(recovered_order) |-> recovered_order[i] ]
            ELSE values
        rebuilt == reconstruct_full_payload(sort_by_index(local_data_shreds))
    IN  [ok |-> rebuilt.ok, payload |-> rebuilt.payload,
         recovery |-> IF ~attempt THEN "none"
                      ELSE IF recovered.ok THEN "recovered" ELSE "failed"]

\* The shreds try_recovery yields for this block, in any order.
RecoveredOrders(fec_block) ==
    LET all == { fec_block.data_shreds[i] : i \in DOMAIN fec_block.data_shreds }
               \cup { fec_block.coding_shreds[i] : i \in DOMAIN fec_block.coding_shreds }
    IN  Orderings(try_recovery(all).shreds)

----------------------------------------------------------------------------
InsertShred_overwriting(fec_block, sh) ==
    IF sh.shred_type = "Code"
    THEN [outcome |-> "inserted",
          block |-> [fec_block EXCEPT
                        !.coding_shreds = MapInsert(@, sh.index, sh),
                        !.coding_shreds_collected = @ + 1]]
    ELSE [outcome |-> "inserted",
          block |-> [fec_block EXCEPT
                        !.data_shreds = MapInsert(@, sh.index, sh),
                        !.data_shreds_collected = @ + 1]]

\* The insertion with the counts taken from every coding shred's header.
InsertShred_recounting(fec_block, sh) ==
    IF sh.shred_type = "Code"
    THEN IF sh.index \in DOMAIN fec_block.coding_shreds
         THEN [outcome |-> "duplicate", block |-> fec_block]
         ELSE LET h == get_coding_shred_header(sh)
              IN  [outcome |-> "inserted",
                   block |-> [fec_block EXCEPT
                        !.num_data_shreds = h.num_data_shreds,
                        !.num_coding_shreds = h.num_coding_shreds,
                        !.coding_shreds = MapInsert(@, sh.index, sh),
                        !.coding_shreds_collected = @ + 1]]
    ELSE IF sh.index \in DOMAIN fec_block.data_shreds
         THEN [outcome |-> "duplicate", block |-> fec_block]
         ELSE LET b1 == IF sh.last_in_slot /\ sh.data_complete
                        THEN [fec_block EXCEPT !.last_shred_in_slot = TRUE]
                        ELSE fec_block
              IN  [outcome |-> "inserted",
                   block |-> [b1 EXCEPT
                        !.data_shreds = MapInsert(@, sh.index, sh),
                        !.data_shreds_collected = @ + 1]]

\* add_shred, the part under the entry's lock up to the insertion.
InsertShred(fec_block, sh) ==
    IF sh.shred_type = "Code"
    THEN IF sh.index \in DOMAIN fec_block.coding_shreds
         THEN [outcome |-> "duplicate", block |-> fec_block]
         ELSE LET h == get_coding_shred_header(sh)
                  b1 == IF fec_block.num_data_shreds = None
                           \/ fec_block.num_coding_shreds = None
                        THEN [fec_block EXCEPT
                                !.num_data_shreds = h.num_data_shreds,
                                !.num_coding_shreds = h.num_coding_shreds]
                        ELSE fec_block
              IN  [outcome |-> "inserted",
                   block |-> [b1 EXCEPT
                        !.coding_shreds = MapInsert(@, sh.index, sh),
                        !.coding_shreds_collected = @ + 1]]
    ELSE IF sh.index \in DOMAIN fec_block.data_shreds
         THEN [outcome |-> "duplicate", block |-> fec_block]
         ELSE LET b1 == IF sh.last_in_slot /\ sh.data_complete
                        THEN [fec_block EXCEPT !.last_shred_in_slot = TRUE]
                        ELSE fec_block
              IN  [outcome |-> "inserted",
                   block |-> [b1 EXCEPT
                        !.data_shreds = MapInsert(@, sh.index, sh),
                        !.data_shreds_collected = @ + 1]]

\* add_shred.  collection_start holds the time elapsed since the Instant it
\* was set to, which is all the program reads of it.
add_shred(sh, key) ==
    LET fec_block == IF key \in DOMAIN fec_blocks THEN fec_blocks[key]
                     ELSE FecBlockNew(key[1], key[2])
        r == InsertShred(fec_block, sh)
        started == IF r.block.collection_start = None
                   THEN [r.block EXCEPT !.collection_start = 0]
                   ELSE r.block
        complete == is_complete(started)
    IN  IF sh.slot # fec_block.slot
        THEN /\ fec_blocks' = MapInsert(fec_blocks, key, fec_block)
             /\ ev' = Event("add_shred", key, "slot_mismatch", FALSE, NoResult)
             /\ UNCHANGED <<processed_blocks, processed_age, spawned, locked>>
        ELSE IF r.outcome = "duplicate"
        THEN /\ ev' = Event("add_shred", key, "duplicate", FALSE, NoResult)
             /\ UNCHANGED <<fec_blocks, processed_blocks, processed_age, spawned, locked>>
        ELSE IF started.collection_start > ExpireSecs
        THEN \* fec_blocks.remove(&key) while the entry's guard is held:
             \* the call never returns
             /\ fec_blocks' = MapInsert(fec_blocks, key, started)
             /\ locked' = locked \cup {key}
             /\ ev' = Event("add_shred", key, "blocked", FALSE, NoResult)
             /\ UNCHANGED <<processed_blocks, processed_age, spawned>>
        ELSE /\ fec_blocks' = MapInsert(fec_blocks, key, started)
             /\ processed_blocks' = IF complete THEN processed_blocks \cup {key}
                                    ELSE processed_blocks
             /\ processed_age' = IF complete /\ key \notin processed_blocks
                                 THEN MapInsert(processed_age, key, 0)
                                 ELSE processed_age
             /\ spawned' = IF complete THEN [spawned EXCEPT ![key] = @ + 1]
                           ELSE spawned
             /\ ev' = Event("add_shred", key, "inserted", complete, NoResult)
             /\ UNCHANGED locked

\* collect_shred for a datagram that parses to shred sh, called from the
\* receive loop of socket_task.
collect_shred(sh) ==
    /\ locked = {}
    /\ spawned[KeyOf(sh)] + decode_count[KeyOf(sh)] < MaxSpawns
    /\ IF KeyOf(sh) \in processed_blocks
       THEN /\ ev' = Event("collect_shred", KeyOf(sh), "processed", FALSE, NoResult)
            /\ UNCHANGED <<fec_blocks, processed_blocks, processed_age, spawned, locked>>
       ELSE IF sh.index < sh.fec_set_index
       THEN /\ ev' = Event("collect_shred", KeyOf(sh), "index_error", FALSE, NoResult)
            /\ UNCHANGED <<fec_blocks, processed_blocks, processed_age, spawned, locked>>
       ELSE add_shred(sh, KeyOf(sh))
    /\ UNCHANGED <<wire, running, decode_count, gc_due, gc_alive>>

\* The spawn_blocking closure of add_shred, up to the end of the decode.
DecodeWorkerStart(key) ==
    /\ spawned[key] > 0
    /\ key \notin locked
    /\ spawned' = [spawned EXCEPT ![key] = @ - 1]
    /\ IF key \notin DOMAIN fec_blocks
       THEN /\ ev' = Event("decode_worker", key, "not_found", FALSE, NoResult)
            /\ UNCHANGED <<running, decode_count>>
       ELSE IF fec_blocks[key].collection_start = None
       THEN /\ ev' = Event("decode_worker", key, "not_started", FALSE, NoResult)
            /\ UNCHANGED <<running, decode_count>>
       ELSE \E data_order \in Orderings(DOMAIN fec_blocks[key].data_shreds) :
            \E recovered_order \in RecoveredOrders(fec_blocks[key]) :
              /\ ev' = Event("decode_worker", key, "decoded", FALSE,
                             decode_fec_block(fec_blocks[key], data_order,
                                              recovered_order))
              /\ running' = [running EXCEPT ![key] = @ + 1]
              /\ decode_count' = [decode_count EXCEPT ![key] = @ + 1]
    /\ UNCHANGED <<wire, fec_blocks, processed_blocks, processed_age, locked,
                   gc_due, gc_alive>>

\* The closure's last step: fec_blocks.remove(&key).
DecodeWorkerFinish(key) ==
    /\ running[key] > 0
    /\ key \notin locked
    /\ running' = [running EXCEPT ![key] = @ - 1]
    /\ fec_blocks' = MapRemove(fec_blocks, key)
    /\ ev' = Event("decode_worker", key, "removed", FALSE, NoResult)
    /\ UNCHANGED <<wire, processed_blocks, processed_age, spawned, decode_count,
                   locked, gc_due, gc_alive>>

\* Ten seconds pass.
Tick ==
    /\ fec_blocks' =
         [ k \in DOMAIN fec_blocks |->
             IF fec_blocks[k].collection_start = None THEN fec_blocks[k]
             ELSE [fec_blocks[k] EXCEPT !.collection_start =
                     IF @ + TickSecs > MaxAge THEN MaxAge ELSE @ + TickSecs] ]
    /\ processed_age' =
         [ k \in DOMAIN processed_age |->
             IF processed_age[k] + TickSecs > MaxAge THEN MaxAge
             ELSE processed_age[k] + TickSecs ]
    /\ gc_due' = TRUE
    /\ ev' = Event("tick", <<0, 0>>, "none", FALSE, NoResult)
    /\ UNCHANGED <<wire, processed_blocks, spawned, running, decode_count,
                   locked, gc_alive>>
    /\ UNCHANGED notFec

\* processed_blocks.retain's closure: the key's second component, the
\* fec_set_index, is compared with the seconds elapsed since now - 20 s.
ProcessedRetain(key) == key[2] > ProcessedWindowSecs

\* fec_blocks.retain's closure.
FecRetain(fec_block) == fec_block.collection_start < GcRetainSecs

\* One round of the garbage collector task after its sleep.
GarbageCollector ==
    /\ gc_due
    /\ gc_alive
    /\ locked = {}
    /\ gc_due' = FALSE
    /\ IF \E k \in DOMAIN fec_blocks : fec_blocks[k].collection_start = None
       THEN \* expect("COLLECTION_START not initialized") panics the task
            /\ gc_alive' = FALSE
            /\ UNCHANGED <<fec_blocks, processed_blocks, processed_age>>
       ELSE /\ fec_blocks' =
                 [ k \in { j \in DOMAIN fec_blocks : FecRetain(fec_blocks[j]) } |->
                     fec_blocks[k] ]
            /\ processed_blocks' = { k \in processed_blocks : ProcessedRetain(k) }
            /\ processed_age' =
                 [ k \in { j \in processed_blocks : ProcessedRetain(j) } |->
                     processed_age[k] ]
            /\ UNCHANGED gc_alive
    /\ ev' = Event("garbage_collector", <<0, 0>>, "none", FALSE, NoResult)
    /\ UNCHANGED <<wire, spawned, running, decode_count, locked>>
    /\ UNCHANGED notFec

\* The parts of the state a specification does not run.
IdleFec ==
    /\ wire = {}
    /\ fec_blocks = <<>>
    /\ processed_blocks = {}
    /\ processed_age = <<>>
    /\ spawned = [ k \in Keys |-> 0 ]
    /\ running = [ k \in Keys |-> 0 ]
    /\ decode_count = [ k \in Keys |-> 0 ]
    /\ locked = {}
    /\ gc_due = FALSE
    /\ gc_alive = TRUE
    /\ ev = NoEvent

RoleInput(s, rs, ru, inline, looked_up, readonly, checks) ==
    [num_required_signatures |-> s, num_readonly_signed_accounts |-> rs,
     num_readonly_unsigned_accounts |-> ru, inline_keys |-> inline,
     looked_up_keys |-> looked_up, readonly_looked_up |-> readonly,
     overflow_checks |-> checks]

RoleOutput(state, signer, writable) ==
    [state |-> state, is_signer |-> signer, is_writable |-> writable]

IdleRoles ==
    /\ role_in = RoleInput(0, 0, 0, 0, 0, 0, FALSE)
    /\ role_out = RoleOutput("idle", {}, {})

IdleTx ==
    /\ payload = [valid |-> FALSE, entries |-> <<>>]
    /\ tx_pc = "idle"
    /\ resolved_txs = <<>>
    /\ par_done = {}
    /\ channel = <<>>
    /\ tx_ret = None
    /\ tx_log = <<>>

\* The workers that use the cache: one resolves transactions, the other is
\* a concurrent decode task seen through its calls into the cache.
Resolver == "resolver"
Peer == "peer"
Workers == { Resolver, Peer }

Frame(fn, key, pc, fetched) == [fn |-> fn, key |-> key, pc |-> pc, fetched |-> fetched]

NoFetch == [ok |-> FALSE, addresses |-> <<>>]

IdleFrame == Frame("idle", "", "idle", NoFetch)

AltTx(account_keys, instructions, lookups) ==
    [account_keys |-> account_keys, instructions |-> instructions,
     lookups |-> lookups]

Resolving(pc, tx, li, resolved_keys, lookup_addresses, used, log) ==
    [pc |-> pc, tx |-> tx, li |-> li, resolved_keys |-> resolved_keys,
     lookup_addresses |-> lookup_addresses, used |-> used, log |-> log]

IdleResolving == Resolving("idle", AltTx(<<>>, <<>>, <<>>), 0, <<>>, <<>>, <<>>, <<>>)

\* What resolve_address_lookups got for one lookup: the size of the table
\* get_lookup_table_addresses returned (None for Err), how often it called
\* force_refresh_lookup_table, and the size that call returned (None for Err
\* or no call).
LookupLog(obtained, refreshes, refreshed) ==
    [obtained |-> obtained, refreshes |-> refreshes, refreshed |-> refreshed]

AltEvent(op, worker, key, outcome, after_observation, outdated, ret) ==
    [op |-> op, worker |-> worker, key |-> key, outcome |-> outcome,
     after_observation |-> after_observation, outdated |-> outdated,
     ret |-> ret]

ParseEvent(primitive, before, ok, value) ==
    [primitive |-> primitive, before |-> before, ok |-> ok, value |-> value]

IdleParse ==
    /\ data = <<>>
    /\ offset = 0
    /\ parse_ev = ParseEvent("none", 0, TRUE, <<>>)

IdleIngest ==
    /\ ingress = <<>>
    /\ gc_pc = "sleep"
    /\ swept = {}

IdleStream ==
    /\ buffer = <<>>
    /\ tail = 0
    /\ rx = <<>>
    /\ send_log = <<>>
    /\ send_ev = [calls |-> 0, ok |-> TRUE]

IdleAlt ==
    /\ cache = <<>>
    /\ chain = <<>>
    /\ alt_call = [ w \in Workers |-> IdleFrame ]
    /\ res = IdleResolving
    /\ observed = {}
    /\ outdated_fetch = {}
    /\ outdated_entry = {}
    /\ alt_ev = AltEvent("init", "", "", "none", FALSE, FALSE, NoFetch)

InitFec ==
    /\ IdleRoles
    /\ IdleTx
    /\ IdleAlt
    /\ IdleParse
    /\ IdleStream
    /\ IdleIngest
    /\ wire \in Wires
    /\ fec_blocks = <<>>
    /\ processed_blocks = {}
    /\ processed_age = <<>>
    /\ spawned = [ k \in Keys |-> 0 ]
    /\ running = [ k \in Keys |-> 0 ]
    /\ decode_count = [ k \in Keys |-> 0 ]
    /\ locked = {}
    /\ gc_due = FALSE
    /\ gc_alive = TRUE
    /\ ev = NoEvent

Receive == (\E sh \in wire : collect_shred(sh)) /\ UNCHANGED notFec

WorkerStart == (\E key \in Keys : DecodeWorkerStart(key)) /\ UNCHANGED notFec

WorkerFinish == (\E key \in Keys : DecodeWorkerFinish(key)) /\ UNCHANGED notFec

NextFec ==
    \/ Receive
    \/ WorkerStart
    \/ WorkerFinish
    \/ Tick
    \/ GarbageCollector

SpecFec == InitFec /\ [][NextFec]_vars

----------------------------------------------------------------------------
\* Properties of SpecFec.

\* The shreds a block holds.
DataOf(b) == { b.data_shreds[i] : i \in DOMAIN b.data_shreds }

CodingOf(b) == { b.coding_shreds[i] : i \in DOMAIN b.coding_shreds }

\* The completion predicate as the specification states it.
CompletionPredicate(b) ==
    /\ b.num_data_shreds # None
    /\ b.num_coding_shreds # None
    /\ \/ Cardinality(DataOf(b)) = b.num_data_shreds
       \/ Cardinality(DataOf(b)) + Cardinality(CodingOf(b))
            >= b.num_data_shreds + b.num_coding_shreds

\* The last operation inserted a shred into the block of its key.
Inserted == ev.op = "add_shred" /\ ev.outcome = "inserted"

\* The last operation ran decode_fec_block on the block of its key.
Decoded == ev.op = "decode_worker" /\ ev.outcome = "decoded"

\* The block of the last operation's key holds only shreds of the
\* producer's FEC set.
OfProducer ==
    /\ ev.key \in DOMAIN fec_blocks
    /\ DataOf(fec_blocks[ev.key]) \cup CodingOf(fec_blocks[ev.key])
         \subseteq Produced(ev.key)

\* C1: decode is performed at most once for each (slot, fec-set-index),
\* whatever shreds arrive later and whatever the garbage collector and the
\* decode workers do in between.
C1_DecodeAtMostOnce == \A k \in Keys : decode_count[k] <= 1

\* C5: decoding a block that holds only shreds of the producer's set and
\* satisfies the completion predicate returns the producer's payload.
C5_RecoveryCorrectness ==
    (Decoded /\ OfProducer /\ CompletionPredicate(fec_blocks[ev.key]))
        => (ev.result.ok /\ ev.result.payload = OriginalPayload(ev.key))

C5_Witness ==
    /\ Decoded /\ OfProducer /\ CompletionPredicate(fec_blocks[ev.key])
    /\ ev.result.ok

\* The payload as a function of the set of shreds alone: the data shreds
\* held, completed by the producer's when the set is recoverable, in
\* ascending index order; no payload when there is none or an index is
\* missing in between.
RECURSIVE AscendingBodies(_, _)
AscendingBodies(k, idx) ==
    IF idx = {} THEN <<>>
    ELSE LET m == CHOOSE i \in idx : \A j \in idx : i <= j
         IN  <<<<k[1], k[2], m, "Data">>>> \o AscendingBodies(k, idx \ {m})

PayloadOfShredSet(k, data_idx, coding_idx) ==
    LET expected == IF coding_idx = {} THEN 1 ELSE NumData
        recoverable == /\ Cardinality(data_idx) < expected
                       /\ coding_idx # {}
                       /\ Cardinality(data_idx) + Cardinality(coding_idx) >= NumData
        idx == IF recoverable THEN k[2]..(k[2] + NumData - 1) ELSE data_idx
        gap == \E i, j \in idx : i < j /\ \E m \in (i + 1)..(j - 1) : m \notin idx
    IN  IF idx = {} \/ gap THEN [ok |-> FALSE, payload |-> <<>>]
        ELSE [ok |-> TRUE, payload |-> AscendingBodies(k, idx)]

\* C6: the payload a decode produces depends only on the set of shreds the
\* block holds, not on the order in which they arrived or are enumerated.
C6_OrderIndependent ==
    (Decoded /\ OfProducer)
        => LET p == PayloadOfShredSet(ev.key,
                        DOMAIN fec_blocks[ev.key].data_shreds,
                        DOMAIN fec_blocks[ev.key].coding_shreds)
           IN  ev.result.ok = p.ok /\ ev.result.payload = p.payload

C6_Witness ==
    /\ Decoded /\ OfProducer
    /\ Cardinality(DOMAIN fec_blocks[ev.key].data_shreds) >= 2
    /\ ev.result.ok

\* C7: is_complete returns true exactly when both expected counts are known
\* and the data shreds are all there or data plus coding reach the expected
\* total.
C7_IsComplete ==
    Inserted => (ev.complete <=> CompletionPredicate(fec_blocks[ev.key]))

C7_Witness ==
    /\ Inserted /\ ev.complete
    /\ Cardinality(DataOf(fec_blocks[ev.key])) < fec_blocks[ev.key].num_data_shreds
    /\ Cardinality(DataOf(fec_blocks[ev.key])) + Cardinality(CodingOf(fec_blocks[ev.key]))
         = fec_blocks[ev.key].num_data_shreds + fec_blocks[ev.key].num_coding_shreds

\* C9: a set whose data shreds have all been inserted and that holds no
\* coding shred completes on the last data-shred insertion: its key is put
\* in the ProcessedSet and a decode is scheduled.
C9_DataOnlyCompletes ==
    (/\ Inserted
     /\ DataOf(fec_blocks[ev.key]) = ProducedData(ev.key)
     /\ CodingOf(fec_blocks[ev.key]) = {})
        => (ev.complete /\ ev.key \in processed_blocks /\ spawned[ev.key] > 0)

\* C10: a block that misses exactly one data shred of the producer's set and
\* holds at least one of its coding shreds, with the counts known, is
\* detected complete and scheduled for decode.
C10_RecoverableCompletes ==
    (/\ Inserted
     /\ OfProducer
     /\ fec_blocks[ev.key].num_data_shreds # None
     /\ Cardinality(DataOf(fec_blocks[ev.key])) = fec_blocks[ev.key].num_data_shreds - 1
     /\ Cardinality(CodingOf(fec_blocks[ev.key])) >= 1)
        => (ev.complete /\ ev.key \in processed_blocks /\ spawned[ev.key] > 0)

\* The (kind, index) position of a shred is taken in the block of its key.
PositionOccupied(sh) ==
    /\ KeyOf(sh) \in DOMAIN fec_blocks
    /\ sh.index \in DOMAIN (IF sh.shred_type = "Code"
                             THEN fec_blocks[KeyOf(sh)].coding_shreds
                             ELSE fec_blocks[KeyOf(sh)].data_shreds)

\* C11: add_shred of a shred whose (kind, index) position is taken in its
\* block returns Ok and changes nothing: the map of blocks with every
\* field of the block, the ProcessedSet and the scheduled decodes stay as
\* they were.
C11_DuplicateNoOp ==
    [][ \A sh \in wire :
          (PositionOccupied(sh) /\ add_shred(sh, KeyOf(sh)))
            => /\ ev'.outcome = "duplicate"
               /\ UNCHANGED <<fec_blocks, processed_blocks, spawned, locked>> ]_vars

C11_Witness ==
    /\ ev.op = "add_shred"
    /\ ev.outcome = "duplicate"
    /\ ev.key \in DOMAIN fec_blocks
    /\ DataOf(fec_blocks[ev.key]) = ReplayedData(ev.key)

ShredsOf(b) == DataOf(b) \cup CodingOf(b)

\* C12: every shred stored in the block at map key (s, f) has slot s and
\* fec_set_index f, and the block's slot field is s; shreds that share the
\* fec_set_index and differ in the slot are held by different blocks.
C12_SlotRouting ==
    /\ \A key \in DOMAIN fec_blocks :
          /\ fec_blocks[key].slot = key[1]
          /\ \A sh \in ShredsOf(fec_blocks[key]) :
                sh.slot = key[1] /\ sh.fec_set_index = key[2]
    /\ \A k1, k2 \in DOMAIN fec_blocks :
          \A sh1 \in ShredsOf(fec_blocks[k1]), sh2 \in ShredsOf(fec_blocks[k2]) :
            (sh1.fec_set_index = sh2.fec_set_index /\ sh1.slot # sh2.slot)
              => k1 # k2

C12_Witness ==
    /\ { LowKey, OtherSlotKey } \subseteq DOMAIN fec_blocks
    /\ ShredsOf(fec_blocks[LowKey]) # {}
    /\ ShredsOf(fec_blocks[OtherSlotKey]) # {}

\* The garbage collector's round removes the block of key k.
ExpiredBySweep(k) ==
    /\ GarbageCollector
    /\ k \in DOMAIN fec_blocks
    /\ k \notin DOMAIN fec_blocks'

\* C23: a block that has not completed is removed by expiration only once
\* it is older than 30 seconds since collection_start.
C23_ExpirationAge ==
    [][ \A k \in Keys :
          (ExpiredBySweep(k) /\ ~CompletionPredicate(fec_blocks[k]))
            => fec_blocks[k].collection_start > ExpireSecs ]_vars

\* C24: a round of the periodic sweep removes every entry of the
\* ProcessedSet that is older than the window, whatever its slot and
\* fec_set_index, so no entry outlives the window by more than one period.
C24_ProcessedSweepRemoves ==
    [][ \A k \in Keys :
          (GarbageCollector /\ gc_alive' /\ k \in processed_blocks
             /\ processed_age[k] > ProcessedWindowSecs)
            => k \notin processed_blocks' ]_vars

\* C25: the sweep never removes an entry of the ProcessedSet that was
\* inserted less than the window ago, whatever its fec_set_index, so the
\* gate keeps rejecting the set's shreds for the whole window.
C25_ProcessedSweepKeeps ==
    [][ \A k \in Keys :
          (GarbageCollector /\ k \in processed_blocks
             /\ processed_age[k] < ProcessedWindowSecs)
            => k \in processed_blocks' ]_vars

\* C31: every pair in the ProcessedSet has its decode scheduled, under way
\* or done: no closure spawned for a completed block ends without having run
\* decode_fec_block, whatever the garbage collector does in between.
C31_DecodeAttempted ==
    \A k \in processed_blocks : spawned[k] + decode_count[k] >= 1

\* The expected counts of a block, as the pair the block holds.
ExpectedCounts(b) == <<b.num_data_shreds, b.num_coding_shreds>>

\* C36: the two expected counts of a block are unknown together until the
\* block's first coding shred is inserted, become the two counts of that
\* shred's header in that step, and are the same after every later step in
\* which the block stays in the map, whatever shred the step inserts.
C36_CountsSetOnce ==
    [][ \A k \in DOMAIN fec_blocks' :
          LET before == IF k \in DOMAIN fec_blocks THEN fec_blocks[k]
                        ELSE FecBlockNew(k[1], k[2])
              after == fec_blocks'[k]
          IN  /\ (after.num_data_shreds = None) <=> (after.num_coding_shreds = None)
              /\ (after.num_data_shreds = None) <=> (after.coding_shreds = <<>>)
              /\ before.num_data_shreds # None
                    => ExpectedCounts(after) = ExpectedCounts(before)
              /\ (before.num_data_shreds = None /\ after.num_data_shreds # None)
                    => \E i \in DOMAIN after.coding_shreds :
                          /\ DOMAIN after.coding_shreds = {i}
                          /\ before.coding_shreds = <<>>
                          /\ ExpectedCounts(after)
                               = <<after.coding_shreds[i].num_data,
                                   after.coding_shreds[i].num_coding>> ]_vars

\* A block holds two coding shreds whose headers differ and has the counts
\* of one of them.
C36_Witness ==
    \E k \in DOMAIN fec_blocks :
        \E i, j \in DOMAIN fec_blocks[k].coding_shreds :
            /\ fec_blocks[k].coding_shreds[i].num_data
                 # fec_blocks[k].coding_shreds[j].num_data
            /\ fec_blocks[k].num_data_shreds = fec_blocks[k].coding_shreds[i].num_data
            /\ fec_blocks[k].data_shreds # <<>>

----------------------------------------------------------------------------
\* SpecRoles: the signer / writable derivation of
\* deserialize_versioned_transaction_with_resolved_keys.

\* header fields range over 0..MaxHeader
MaxHeader == 3
\* inline account keys of a message
MaxInlineKeys == 4
\* keys a v0 message adds through its lookups
MaxLookupKeys == 1
\* the header fields are u8
U8 == 256

\* The flags of the positions 0..num_accounts-1.  The header arithmetic is
\* u8: with overflow checks the build panics, without them it wraps.
derive_roles(s, rs, ru, num_accounts, overflow_checks) ==
    IF overflow_checks /\ (s < rs \/ s + ru >= U8)
    THEN RoleOutput("panic", {}, {})
    ELSE RoleOutput("done",
            { i \in 0..(num_accounts - 1) : i < s },
            { i \in 0..(num_accounts - 1) : i < (s - rs) % U8 }
              \cup { i \in 0..(num_accounts - 1) : i >= (s + ru) % U8 })

\* A message with n inline keys and one lookup that adds l keys, the first r
\* of them through its readonly_indexes and the others through its
\* writable_indexes, which is the order resolve_address_lookups pushes them
\* in.
\* The values a header field takes: the small ones and the largest u8.
HeaderValues == 0..MaxHeader \cup { U8 - 1 }

RoleInputs ==
    { x \in { RoleInput(s, rs, ru, n, l, r, c) :
                s \in HeaderValues, rs \in HeaderValues, ru \in HeaderValues,
                n \in 0..MaxInlineKeys, l \in 0..MaxLookupKeys,
                r \in 0..MaxLookupKeys, c \in BOOLEAN } :
        x.readonly_looked_up <= x.looked_up_keys }

InitRoles ==
    /\ IdleFec
    /\ IdleTx
    /\ IdleAlt
    /\ IdleParse
    /\ IdleStream
    /\ IdleIngest
    /\ role_in \in RoleInputs
    /\ role_out = RoleOutput("pending", {}, {})

\* The derivation for one transaction: account_keys are the resolved keys,
\* inline keys first.
DeriveRoles ==
    /\ role_out.state = "pending"
    /\ role_out' = derive_roles(role_in.num_required_signatures,
                                role_in.num_readonly_signed_accounts,
                                role_in.num_readonly_unsigned_accounts,
                                role_in.inline_keys + role_in.looked_up_keys,
                                role_in.overflow_checks)
    /\ UNCHANGED role_in
    /\ UNCHANGED notRoles

NextRoles == DeriveRoles

SpecRoles == InitRoles /\ [][NextRoles]_vars

\* The header is well formed for the inline keys.
WellFormedHeader ==
    /\ role_in.num_readonly_signed_accounts <= role_in.num_required_signatures
    /\ role_in.num_required_signatures <= role_in.inline_keys
    /\ role_in.num_readonly_unsigned_accounts
         <= role_in.inline_keys - role_in.num_required_signatures

\* C4: for a well-formed header (S, Rs, Ru) and N inline keys the signers
\* are the positions [0, S) and the writable inline positions are
\* [0, S-Rs) and [S, N-Ru).
C4_RoleDerivation ==
    (role_out.state # "pending" /\ WellFormedHeader)
        => LET s == role_in.num_required_signatures
               rs == role_in.num_readonly_signed_accounts
               ru == role_in.num_readonly_unsigned_accounts
               n == role_in.inline_keys
           IN  /\ role_out.state = "done"
               /\ role_out.is_signer = 0..(s - 1)
               /\ role_out.is_writable \cap 0..(n - 1)
                    = 0..(s - rs - 1) \cup s..(n - ru - 1)

\* The positions of the resolved keys that the lookup's readonly_indexes and
\* its writable_indexes contributed.
ReadonlyLookedUp ==
    { i \in 0..(role_in.inline_keys + role_in.looked_up_keys - 1) :
        /\ i >= role_in.inline_keys
        /\ i < role_in.inline_keys + role_in.readonly_looked_up }

WritableLookedUp ==
    { i \in 0..(role_in.inline_keys + role_in.looked_up_keys - 1) :
        i >= role_in.inline_keys + role_in.readonly_looked_up }

\* C34: in the flags derived for a v0 message with a well-formed header, a
\* key that came from a lookup's readonly_indexes is not writable, a key
\* that came from its writable_indexes is writable, and no key that came
\* from a lookup is a signer.
C34_LookupFlags ==
    (role_out.state = "done" /\ WellFormedHeader)
        => /\ ReadonlyLookedUp \cap role_out.is_writable = {}
           /\ WritableLookedUp \subseteq role_out.is_writable
           /\ (ReadonlyLookedUp \cup WritableLookedUp) \cap role_out.is_signer = {}

\* C39: for every header of u8 fields and every number of resolved keys,
\* malformed headers included, the derivation of the flags runs to its end:
\* no subtraction or addition of header fields leaves the range of u8 and
\* stops the decode of the transaction and of its payload.
C39_DerivationCompletes == role_out.state # "panic"

----------------------------------------------------------------------------
\* SpecTx: extract_transactions_from_payload.

\* transactions of a payload
MaxTxs == 3
\* instructions of a transaction
MaxInstrs == 2

\* An instruction, named by the first check of the decode loop it fails:
\* its program id index is out of range, its data is shorter than 8 bytes,
\* its program has no decoder, its discriminator is unknown, its variant is
\* one the decoder skips, it has fewer accounts than the variant needs, its
\* parameters do not parse, or none of these.
InstructionKinds ==
    { "missing_program", "short_data", "other_program", "unknown_variant",
      "skipped_variant", "few_accounts", "parse_error", "ok" }

Transaction(sig, instructions) == [sig |-> sig, instructions |-> instructions]

RECURSIVE DecodeInstructions_reversed(_, _, _, _)
DecodeInstructions_reversed(instructions, i, relevant, serialized) ==
    IF i > Len(instructions)
    THEN [contains_relevant_instruction |-> relevant,
          serialized_instructions |-> serialized]
    ELSE IF instructions[i] \in { "missing_program", "short_data",
                                  "other_program", "unknown_variant" }
    THEN DecodeInstructions_reversed(instructions, i + 1, relevant, serialized)
    ELSE IF instructions[i] \in { "skipped_variant", "few_accounts",
                                  "parse_error" }
    THEN DecodeInstructions_reversed(instructions, i + 1, TRUE, serialized)
    ELSE DecodeInstructions_reversed(instructions, i + 1, TRUE, <<i>> \o serialized)

\* The loop left at the first instruction whose accounts are too few or
\* whose parameters do not parse.
RECURSIVE DecodeInstructions_aborting(_, _, _, _)
DecodeInstructions_aborting(instructions, i, relevant, serialized) ==
    IF i > Len(instructions)
    THEN [contains_relevant_instruction |-> relevant,
          serialized_instructions |-> serialized]
    ELSE IF instructions[i] \in { "missing_program", "short_data",
                                  "other_program", "unknown_variant" }
    THEN DecodeInstructions_aborting(instructions, i + 1, relevant, serialized)
    ELSE IF instructions[i] = "skipped_variant"
    THEN DecodeInstructions_aborting(instructions, i + 1, TRUE, serialized)
    ELSE IF instructions[i] \in { "few_accounts", "parse_error" }
    THEN [contains_relevant_instruction |-> TRUE,
          serialized_instructions |-> serialized]
    ELSE DecodeInstructions_aborting(instructions, i + 1, TRUE, Append(serialized, i))

\* The instruction loop of deserialize_versioned_transaction_with_resolved_keys
\* from instruction i on: contains_relevant_instruction and the positions
\* pushed onto serialized_instructions.
RECURSIVE DecodeInstructions(_, _, _, _)
DecodeInstructions(instructions, i, relevant, serialized) ==
    IF i > Len(instructions)
    THEN [contains_relevant_instruction |-> relevant,
          serialized_instructions |-> serialized]
    ELSE IF instructions[i] \in { "missing_program", "short_data",
                                  "other_program", "unknown_variant" }
    THEN DecodeInstructions(instructions, i + 1, relevant, serialized)
    ELSE IF instructions[i] \in { "skipped_variant", "few_accounts",
                                  "parse_error" }
    THEN DecodeInstructions(instructions, i + 1, TRUE, serialized)
    ELSE DecodeInstructions(instructions, i + 1, TRUE, Append(serialized, i))

\* deserialize_versioned_transaction_with_resolved_keys: the JSON value, or
\* None.
NoJson == [some |-> FALSE, sig |-> 0, instructions |-> <<>>]

deserialize_versioned_transaction_relevant_only(transaction) ==
    LET d == DecodeInstructions(transaction.instructions, 1, FALSE, <<>>)
    IN  IF ~d.contains_relevant_instruction
        THEN NoJson
        ELSE [some |-> TRUE, sig |-> transaction.sig,
              instructions |-> d.serialized_instructions]

deserialize_versioned_transaction_with_resolved_keys(transaction) ==
    LET d == DecodeInstructions(transaction.instructions, 1, FALSE, <<>>)
    IN  IF ~d.contains_relevant_instruction \/ d.serialized_instructions = <<>>
        THEN NoJson
        ELSE [some |-> TRUE, sig |-> transaction.sig,
              instructions |-> d.serialized_instructions]

\* The transactions of the entries in wire order: entry order, then
\* transaction order within each entry.
RECURSIVE WireOrder(_)
WireOrder(entries) ==
    IF entries = <<>> THEN <<>> ELSE Head(entries) \o WireOrder(Tail(entries))

\* The payloads: MaxTxs transactions, each decodable or not, split over two
\* entries at any place; one transaction with any instruction list; a
\* payload that does not deserialize.
RECURSIVE InstructionLists(_)
InstructionLists(n) ==
    IF n = 0 THEN { <<>> }
    ELSE InstructionLists(n - 1)
         \cup { Append(l, k) : l \in { x \in InstructionLists(n - 1) : Len(x) = n - 1 },
                               k \in InstructionKinds }

Payloads ==
    { [valid |-> TRUE,
       entries |-> << [ i \in 1..split |-> Transaction(i, shape[i]) ],
                      [ i \in 1..(MaxTxs - split) |->
                          Transaction(split + i, shape[split + i]) ] >>] :
        split \in 0..MaxTxs,
        shape \in [1..MaxTxs -> { <<"ok">>, <<"other_program">> }] }
    \cup { [valid |-> TRUE, entries |-> << <<Transaction(1, l)>> >>] :
             l \in InstructionLists(MaxInstrs) }
    \cup { [valid |-> FALSE, entries |-> <<>>] }

InitTx ==
    /\ IdleFec
    /\ IdleRoles
    /\ IdleAlt
    /\ IdleParse
    /\ IdleStream
    /\ IdleIngest
    /\ payload \in Payloads
    /\ tx_pc = "deserialize"
    /\ resolved_txs = <<>>
    /\ par_done = {}
    /\ channel = <<>>
    /\ tx_ret = None
    /\ tx_log = <<>>

\* bincode::deserialize::<Vec<Entry>>(&payload)
DeserializeEntries ==
    /\ tx_pc = "deserialize"
    /\ IF ~payload.valid
       THEN tx_pc' = "done" /\ tx_ret' = 0
       ELSE /\ tx_pc' = IF WireOrder(payload.entries) = <<>> THEN "parallel"
                        ELSE "scan"
            /\ UNCHANGED tx_ret
    /\ UNCHANGED <<payload, resolved_txs, par_done, channel, tx_log>>
    /\ UNCHANGED notTx

\* A call made on a transaction: which one, on the transaction of which
\* signature.
TxCall(op, sig) == [op |-> op, sig |-> sig]

\* The serial loop's first statement on the next transaction:
\* process_transaction_for_lookup_table_extensions.
ScanNext ==
    /\ tx_pc = "scan"
    /\ tx_log' = Append(tx_log,
                        TxCall("scan", WireOrder(payload.entries)[Len(resolved_txs) + 1].sig))
    /\ tx_pc' = "resolve"
    /\ UNCHANGED <<payload, resolved_txs, par_done, channel, tx_ret>>
    /\ UNCHANGED notTx

\* The rest of a round of the serial loop: the resolution of the
\* transaction's keys, awaited, and the push onto
\* transactions_with_resolved_keys.
ResolveNext ==
    /\ tx_pc = "resolve"
    /\ resolved_txs' = Append(resolved_txs,
                              WireOrder(payload.entries)[Len(resolved_txs) + 1])
    /\ tx_log' = Append(tx_log,
                        TxCall("resolve", WireOrder(payload.entries)[Len(resolved_txs) + 1].sig))
    /\ tx_pc' = IF Len(resolved_txs') = Len(WireOrder(payload.entries))
                THEN "parallel" ELSE "scan"
    /\ UNCHANGED <<payload, par_done, channel, tx_ret>>
    /\ UNCHANGED notTx

\* The closure run on every item as soon as it has been pushed.
ParClosure_pipelined(i) ==
    /\ tx_pc \in { "scan", "resolve", "parallel" }
    /\ i \in (1..Len(resolved_txs)) \ par_done
    /\ LET json == deserialize_versioned_transaction_with_resolved_keys(resolved_txs[i])
       IN  channel' = IF json.some THEN Append(channel, json) ELSE channel
    /\ tx_log' = Append(tx_log, TxCall("decode", resolved_txs[i].sig))
    /\ par_done' = par_done \cup {i}
    /\ UNCHANGED <<payload, tx_pc, resolved_txs, tx_ret>>

\* The par_iter closure on item i, run by whichever pool thread takes it.
ParClosure(i) ==
    /\ tx_pc = "parallel"
    /\ i \in (1..Len(resolved_txs)) \ par_done
    /\ LET json == deserialize_versioned_transaction_with_resolved_keys(resolved_txs[i])
       IN  channel' = IF json.some THEN Append(channel, json) ELSE channel
    /\ tx_log' = Append(tx_log, TxCall("decode", resolved_txs[i].sig))
    /\ par_done' = par_done \cup {i}
    /\ UNCHANGED <<payload, tx_pc, resolved_txs, tx_ret>>

ParStep == (\E i \in 1..MaxTxs : ParClosure(i)) /\ UNCHANGED notTx

\* .sum() and the return of (slot, total_txs).
ReturnTotal ==
    /\ tx_pc = "parallel"
    /\ par_done = 1..Len(resolved_txs)
    /\ tx_pc' = "done"
    /\ tx_ret' = Len(resolved_txs)
    /\ UNCHANGED <<payload, resolved_txs, par_done, channel, tx_log>>
    /\ UNCHANGED notTx

NextTx ==
    \/ DeserializeEntries
    \/ ScanNext
    \/ ResolveNext
    \/ ParStep
    \/ ReturnTotal

SpecTx == InitTx /\ [][NextTx]_vars

\* C2: the messages pushed onto the channel for one payload appear in wire
\* order, under every schedule of the parallel closures.
C2_WireOrderEmission ==
    \A i, j \in 1..Len(channel) : i < j => channel[i].sig < channel[j].sig

\* The positions of the instructions of a transaction that decode: program
\* with a decoder, data of 8 bytes or more, known variant that is not
\* skipped, enough accounts, parameters that parse.
DecodedPositions(transaction) ==
    { i \in DOMAIN transaction.instructions : transaction.instructions[i] = "ok" }

\* The messages on the channel that carry transaction sig.
EmissionsOf(sig) == { j \in DOMAIN channel : channel[j].sig = sig }

\* C17: a transaction is on the channel exactly when its closure has run and
\* at least one of its instructions decoded; a transaction none of whose
\* instructions decoded is never there.
C17_EmittedIffDecoded ==
    \A i \in DOMAIN WireOrder(payload.entries) :
        LET transaction == WireOrder(payload.entries)[i]
        IN  /\ Cardinality(EmissionsOf(transaction.sig)) <= 1
            /\ EmissionsOf(transaction.sig) # {}
                  <=> (i \in par_done /\ DecodedPositions(transaction) # {})

\* A transaction whose decoder was entered and failed on every instruction
\* has been through its closure and is not on the channel.
C17_Witness ==
    /\ tx_pc = "done"
    /\ tx_ret = 1
    /\ WireOrder(payload.entries)[1].instructions = <<"parse_error", "few_accounts">>
    /\ channel = <<>>

\* C18: the instructions of a message on the channel are the instructions
\* of its transaction that decoded, all of them and no other, in the order
\* of the transaction's instruction list.
C18_InstructionOrder ==
    \A j \in DOMAIN channel :
        \E i \in DOMAIN WireOrder(payload.entries) :
            LET transaction == WireOrder(payload.entries)[i]
                emitted == channel[j].instructions
            IN  /\ transaction.sig = channel[j].sig
                /\ { emitted[n] : n \in DOMAIN emitted } = DecodedPositions(transaction)
                /\ Len(emitted) = Cardinality(DecodedPositions(transaction))
                /\ \A m, n \in DOMAIN emitted : m < n => emitted[m] < emitted[n]

C18_Witness ==
    /\ Len(channel) = 1
    /\ WireOrder(payload.entries)[1].instructions = <<"ok", "ok">>
    /\ channel[1].instructions = <<1, 2>>

\* The instructions of a transaction that the decoder gives up on: fewer
\* accounts than the variant's minimum, or parameters that do not parse.
FailedPositions(transaction) ==
    { i \in DOMAIN transaction.instructions :
        transaction.instructions[i] \in { "few_accounts", "parse_error" } }

\* C33: an instruction with too few accounts or a parse error is skipped
\* alone: every later instruction of the transaction that decodes is in the
\* message emitted for the transaction.
C33_SkipsOneInstruction ==
    \A i \in par_done :
        LET transaction == resolved_txs[i]
        IN  \A m \in FailedPositions(transaction) :
            \A n \in DecodedPositions(transaction) :
                m < n =>
                  \E j \in EmissionsOf(transaction.sig) :
                    \E e \in DOMAIN channel[j].instructions :
                        channel[j].instructions[e] = n

\* A transaction whose first instruction fails to parse and whose second
\* decodes has been emitted with the second.
C33_Witness ==
    /\ par_done = {1}
    /\ resolved_txs[1].instructions \in { <<"parse_error", "ok">>, <<"few_accounts", "ok">> }
    /\ Len(channel) = 1
    /\ channel[1].instructions = <<2>>

\* The call the serial loop makes in its n-th step.
SerialCall(n) ==
    LET transaction == WireOrder(payload.entries)[(n + 1) \div 2]
    IN  TxCall(IF n % 2 = 1 THEN "scan" ELSE "resolve", transaction.sig)

\* C32: the scans and resolutions of a payload's transactions are made one
\* transaction at a time in wire order, each transaction's scan right before
\* its own resolution, and every decode comes after the resolution of the
\* payload's last transaction.
C32_SerialResolution ==
    \A n \in DOMAIN tx_log :
        IF n <= 2 * Len(WireOrder(payload.entries))
        THEN tx_log[n] = SerialCall(n)
        ELSE tx_log[n].op = "decode"

\* All transactions have been scanned and resolved and one of them, not the
\* first, has been decoded while the first has not.
C32_Witness ==
    /\ Len(WireOrder(payload.entries)) = MaxTxs
    /\ Len(tx_log) = 2 * MaxTxs + 1
    /\ tx_log[2 * MaxTxs + 1] = TxCall("decode", MaxTxs)

----------------------------------------------------------------------------
(***************************************************************************)
(* The address-lookup-table cache (address_lookup_table_cache.rs).         *)
(*                                                                         *)
(* Decode tasks run on several threads and share one cache.  A call into   *)
(* the cache is a sequence of atomic DashMap operations separated by the   *)
(* RPC round trip, so each call is split at those points.  The resolver    *)
(* runs the serial loop of extract_transactions_from_payload on one        *)
(* transaction after the other; the peer is another decode task, seen      *)
(* through the calls it makes into the same cache.                         *)
(***************************************************************************)

\* Bounds of the cache model.
MaxTableSize == 2
AltTickSecs == 300
MaxCacheAge == 300

\* LOOKUP_TABLE_CACHE_TTL_SECONDS, its default.
CacheTtlSecs == 300

AltProgram == "AddressLookupTab1e1111111111111111111111111"

\* Pubkey::default(), pushed where no address is available.
Placeholder == "11111111111111111111111111111111"

\* The tables the RPC node is asked about: T1 is extended while the
\* program runs, T2 keeps its one address, which is the address of T1.
TableKeys == { "T1", "T2" }

\* The i-th address (from 0) stored in table t; a table is append-only.
TableAddress(t, i) ==
    IF t = "T2" /\ i = 0 THEN "T1" ELSE t \o "/" \o ToString(i)

Addresses(t, n) == [ i \in 1..n |-> TableAddress(t, i - 1) ]

LookupTableCacheEntry(addresses, last_updated, is_valid) ==
    [addresses |-> addresses, last_updated |-> last_updated, is_valid |-> is_valid]

CompiledInstruction(program_id_index, accounts, instruction_data) ==
    [program_id_index |-> program_id_index, accounts |-> accounts,
     data |-> instruction_data]

MessageAddressTableLookup(account_key, writable_indexes, readonly_indexes) ==
    [account_key |-> account_key, writable_indexes |-> writable_indexes,
     readonly_indexes |-> readonly_indexes]

\* The transactions the workers meet.
ExtendThenLookupTx ==
    AltTx(<<"payer", "T1", AltProgram>>,
          << CompiledInstruction(2, <<1, 0>>, <<2, 0, 0, 0, 7>>) >>,
          << MessageAddressTableLookup("T1", <<1>>, <<0>>) >>)

TwoTablesTx ==
    AltTx(<<"payer">>, <<>>,
          << MessageAddressTableLookup("T2", <<>>, <<0>>),
             MessageAddressTableLookup("T1", <<0>>, <<1>>) >>)

OutOfBoundsTx ==
    AltTx(<<"payer", "program">>,
          << CompiledInstruction(1, <<0>>, <<2, 0, 0, 0>>) >>,
          << MessageAddressTableLookup("T1", <<2>>, <<>>) >>)

ShortDataTx ==
    AltTx(<<"payer", "T1", AltProgram>>,
          << CompiledInstruction(2, <<1>>, <<2, 0, 0>>),
             CompiledInstruction(2, <<>>, <<2, 0, 0, 0>>),
             CompiledInstruction(2, <<1>>, <<2, 0, 0, 1>>) >>,
          <<>>)

\* An ExtendLookupTable instruction whose first account is index 2 of the
\* message: the key loaded through the lookup, which is T1.
IndirectExtendTx ==
    AltTx(<<"payer", AltProgram>>,
          << CompiledInstruction(1, <<2, 0>>, <<2, 0, 0, 0>>) >>,
          << MessageAddressTableLookup("T2", <<0>>, <<>>) >>)

AltTxs ==
    { ExtendThenLookupTx, TwoTablesTx, OutOfBoundsTx, ShortDataTx,
      IndirectExtendTx }

\* u32::from_le_bytes over the first four bytes of the data.
u32_from_le_bytes(le_bytes) ==
    le_bytes[1] + 256 * le_bytes[2] + 65536 * le_bytes[3] + 16777216 * le_bytes[4]

\* AddressLookupTableCache::is_extend_lookup_table_instruction
is_extend_lookup_table_instruction(instruction, message) ==
    LET account_keys == message.account_keys
        program == instruction.program_id_index + 1
    IN  /\ program \in DOMAIN account_keys
        /\ account_keys[program] = AltProgram
        /\ Len(instruction.data) >= 4
        /\ u32_from_le_bytes(instruction.data) = 2

\* AddressLookupTableCache::extract_lookup_table_from_instruction: the set
\* holding the key, or the empty set for None.
extract_lookup_table_from_instruction(instruction, message) ==
    LET account_keys == message.account_keys
    IN  IF instruction.accounts # <<>>
        THEN IF instruction.accounts[1] + 1 \in DOMAIN account_keys
             THEN { account_keys[instruction.accounts[1] + 1] }
             ELSE {}
        ELSE {}

\* The keys process_transaction_for_extensions invalidates.
InvalidatedKeys(transaction) ==
    UNION { extract_lookup_table_from_instruction(
                transaction.instructions[i], transaction) :
            i \in { j \in DOMAIN transaction.instructions :
                      is_extend_lookup_table_instruction(
                          transaction.instructions[j], transaction) } }

\* AddressLookupTableCache::process_transaction_for_extensions with
\* invalidate_cache_entry: the cache after the scan.
process_transaction_for_extensions(transaction) ==
    [ k \in (DOMAIN cache) \ InvalidatedKeys(transaction) |-> cache[k] ]

\* AddressLookupTableCache::fetch_lookup_table_from_rpc: the answer of the
\* RPC node, which may fail.
fetch_lookup_table_from_rpc(key, rpc_ok) ==
    IF rpc_ok /\ key \in DOMAIN chain /\ chain[key] # None
    THEN [ok |-> TRUE, addresses |-> Addresses(key, chain[key])]
    ELSE NoFetch

needs_refresh_strict(lookup, lookup_addresses) ==
    LET indexes == lookup.readonly_indexes \o lookup.writable_indexes
    IN  \E j \in DOMAIN indexes : indexes[j] > Len(lookup_addresses)

\* resolve_address_lookups, the out-of-bounds scan.
needs_refresh(lookup, lookup_addresses) ==
    LET indexes == lookup.readonly_indexes \o lookup.writable_indexes
    IN  \E j \in DOMAIN indexes : indexes[j] >= Len(lookup_addresses)

\* lookup_addresses.get(index), or the placeholder.
AddressOrPlaceholder(lookup_addresses, index) ==
    IF index + 1 \in DOMAIN lookup_addresses
    THEN lookup_addresses[index + 1]
    ELSE Placeholder

push_lookup_keys_writable_first(lookup, lookup_addresses) ==
    [ j \in DOMAIN lookup.writable_indexes |->
        AddressOrPlaceholder(lookup_addresses, lookup.writable_indexes[j]) ]
    \o
    [ j \in DOMAIN lookup.readonly_indexes |->
        AddressOrPlaceholder(lookup_addresses, lookup.readonly_indexes[j]) ]

\* resolve_address_lookups, the two push loops of one lookup.
push_lookup_keys(lookup, lookup_addresses) ==
    [ j \in DOMAIN lookup.readonly_indexes |->
        AddressOrPlaceholder(lookup_addresses, lookup.readonly_indexes[j]) ]
    \o
    [ j \in DOMAIN lookup.writable_indexes |->
        AddressOrPlaceholder(lookup_addresses, lookup.writable_indexes[j]) ]

push_placeholders_skipped(lookup) == <<>>

\* resolve_address_lookups, the placeholders of a failed lookup.
push_placeholders(lookup) ==
    [ j \in 1..(Len(lookup.readonly_indexes) + Len(lookup.writable_indexes)) |->
        Placeholder ]

\* resolve_address_lookups after the table of the current lookup is
\* settled: push its keys and go on to the next lookup, or return.
FinishLookup(ret, entry) ==
    LET lookups == res.tx.lookups
        lookup == lookups[res.li]
        last == res.li = Len(lookups)
        pushed == IF ret.ok THEN push_lookup_keys(lookup, ret.addresses)
                            ELSE push_placeholders(lookup)
    IN  /\ res' = Resolving(IF last THEN "done" ELSE "resolving", res.tx,
                            IF last THEN res.li ELSE res.li + 1,
                            res.resolved_keys \o pushed, <<>>,
                            Append(res.used,
                                   IF ret.ok THEN Len(ret.addresses) ELSE None),
                            Append(res.log, entry))
        /\ alt_call' = [alt_call EXCEPT ![Resolver] =
              IF last THEN IdleFrame
              ELSE Frame("get", lookups[res.li + 1].account_key, "check", NoFetch)]

\* resolve_address_lookups when get_lookup_table_addresses returns.
AfterGet(ret) ==
    LET lookup == res.tx.lookups[res.li]
    IN  IF ret.ok /\ needs_refresh(lookup, ret.addresses)
        THEN \E rpc_ok \in BOOLEAN :
               /\ alt_call' = [alt_call EXCEPT ![Resolver] =
                     Frame("refresh", lookup.account_key, "fetch",
                           fetch_lookup_table_from_rpc(lookup.account_key, rpc_ok))]
               /\ res' = [res EXCEPT !.lookup_addresses = ret.addresses]
        ELSE FinishLookup(ret, LookupLog(IF ret.ok THEN Len(ret.addresses) ELSE None,
                                         0, None))

\* resolve_address_lookups when force_refresh_lookup_table returns.
AfterRefresh(ret) ==
    FinishLookup(IF ret.ok THEN ret
                 ELSE [ok |-> TRUE, addresses |-> res.lookup_addresses],
                 LookupLog(Len(res.lookup_addresses), 1,
                           IF ret.ok THEN Len(ret.addresses) ELSE None))

\* The return of a cache call to its caller.
Return(w, fn, ret) ==
    IF w = Peer
    THEN /\ alt_call' = [alt_call EXCEPT ![w] = IdleFrame]
         /\ UNCHANGED res
    ELSE IF fn = "get" THEN AfterGet(ret) ELSE AfterRefresh(ret)

GetCheck_ignoring_ttl(w) ==
    /\ alt_call[w].fn = "get"
    /\ alt_call[w].pc = "check"
    /\ LET key == alt_call[w].key
           hit == /\ key \in DOMAIN cache
                  /\ cache[key].is_valid
       IN  /\ IF hit
              THEN Return(w, "get", [ok |-> TRUE, addresses |-> cache[key].addresses])
              ELSE /\ \E rpc_ok \in BOOLEAN :
                        alt_call' = [alt_call EXCEPT ![w] =
                            Frame("get", key, "fetch",
                                  fetch_lookup_table_from_rpc(key, rpc_ok))]
                   /\ UNCHANGED res
           /\ alt_ev' = AltEvent("get", w, key, IF hit THEN "hit" ELSE "miss",
                                 key \in observed,
                                 hit /\ key \in outdated_entry,
                                 IF hit
                                 THEN [ok |-> TRUE, addresses |-> cache[key].addresses]
                                 ELSE NoFetch)
           /\ observed' = observed \ {key}
    /\ UNCHANGED <<cache, chain, outdated_fetch, outdated_entry>>

\* get_lookup_table_addresses, the cache check; on a miss the RPC request
\* goes out.
GetCheck(w) ==
    /\ alt_call[w].fn = "get"
    /\ alt_call[w].pc = "check"
    /\ LET key == alt_call[w].key
           hit == /\ key \in DOMAIN cache
                  /\ cache[key].is_valid
                  /\ cache[key].last_updated < CacheTtlSecs
       IN  /\ IF hit
              THEN Return(w, "get", [ok |-> TRUE, addresses |-> cache[key].addresses])
              ELSE /\ \E rpc_ok \in BOOLEAN :
                        alt_call' = [alt_call EXCEPT ![w] =
                            Frame("get", key, "fetch",
                                  fetch_lookup_table_from_rpc(key, rpc_ok))]
                   /\ UNCHANGED res
           /\ alt_ev' = AltEvent("get", w, key, IF hit THEN "hit" ELSE "miss",
                                 key \in observed,
                                 hit /\ key \in outdated_entry,
                                 IF hit
                                 THEN [ok |-> TRUE, addresses |-> cache[key].addresses]
                                 ELSE NoFetch)
           /\ observed' = observed \ {key}
    /\ UNCHANGED <<cache, chain, outdated_fetch, outdated_entry>>

GetStore_no_fallback(w) ==
    /\ alt_call[w].fn = "get"
    /\ alt_call[w].pc = "fetch"
    /\ LET key == alt_call[w].key
           fetched == alt_call[w].fetched
       IN  IF fetched.ok
           THEN /\ cache' = MapInsert(cache, key,
                                LookupTableCacheEntry(fetched.addresses, 0, TRUE))
                /\ Return(w, "get", fetched)
                /\ alt_ev' = AltEvent("get", w, key, "fetched", FALSE, FALSE, fetched)
                /\ outdated_entry' = IF w \in outdated_fetch
                                     THEN outdated_entry \cup {key}
                                     ELSE outdated_entry \ {key}
           ELSE /\ alt_call' = [alt_call EXCEPT ![w].pc = "store_failure"]
                /\ alt_ev' = AltEvent("get", w, key, "fetch_failed", FALSE, FALSE, NoFetch)
                /\ UNCHANGED <<cache, res, outdated_entry>>
    /\ outdated_fetch' = outdated_fetch \ {w}
    /\ UNCHANGED <<chain, observed>>

\* get_lookup_table_addresses when the RPC answer arrives: store it, or on
\* an error fall back to a valid entry.
GetStore(w) ==
    /\ alt_call[w].fn = "get"
    /\ alt_call[w].pc = "fetch"
    /\ LET key == alt_call[w].key
           fetched == alt_call[w].fetched
       IN  IF fetched.ok
           THEN /\ cache' = MapInsert(cache, key,
                                LookupTableCacheEntry(fetched.addresses, 0, TRUE))
                /\ Return(w, "get", fetched)
                /\ alt_ev' = AltEvent("get", w, key, "fetched", FALSE, FALSE, fetched)
                /\ outdated_entry' = IF w \in outdated_fetch
                                     THEN outdated_entry \cup {key}
                                     ELSE outdated_entry \ {key}
           ELSE IF key \in DOMAIN cache /\ cache[key].is_valid
           THEN /\ Return(w, "get", [ok |-> TRUE, addresses |-> cache[key].addresses])
                /\ alt_ev' = AltEvent("get", w, key, "stale", FALSE, FALSE,
                                      [ok |-> TRUE, addresses |-> cache[key].addresses])
                /\ UNCHANGED <<cache, outdated_entry>>
           ELSE /\ alt_call' = [alt_call EXCEPT ![w].pc = "store_failure"]
                /\ alt_ev' = AltEvent("get", w, key, "fetch_failed", FALSE, FALSE, NoFetch)
                /\ UNCHANGED <<cache, res, outdated_entry>>
    /\ outdated_fetch' = outdated_fetch \ {w}
    /\ UNCHANGED <<chain, observed>>

\* get_lookup_table_addresses, caching the failure and returning Err.
GetStoreFailure(w) ==
    /\ alt_call[w].fn = "get"
    /\ alt_call[w].pc = "store_failure"
    /\ cache' = MapInsert(cache, alt_call[w].key,
                          LookupTableCacheEntry(<<>>, 0, FALSE))
    /\ Return(w, "get", NoFetch)
    /\ alt_ev' = AltEvent("get", w, alt_call[w].key, "failure", FALSE, FALSE, NoFetch)
    /\ outdated_entry' = outdated_entry \ {alt_call[w].key}
    /\ UNCHANGED <<chain, observed, outdated_fetch>>

RefreshStore_caching_failure(w) ==
    /\ alt_call[w].fn = "refresh"
    /\ alt_call[w].pc = "fetch"
    /\ LET key == alt_call[w].key
           fetched == alt_call[w].fetched
       IN  /\ cache' = IF fetched.ok
                       THEN MapInsert(cache, key,
                                LookupTableCacheEntry(fetched.addresses, 0, TRUE))
                       ELSE MapInsert(cache, key,
                                LookupTableCacheEntry(<<>>, 0, FALSE))
           /\ Return(w, "refresh", fetched)
           /\ alt_ev' = AltEvent("refresh", w, key,
                                 IF fetched.ok THEN "refreshed" ELSE "refresh_failed",
                                 FALSE, FALSE, fetched)
           /\ outdated_entry' = IF ~fetched.ok THEN outdated_entry
                                ELSE IF w \in outdated_fetch
                                THEN outdated_entry \cup {key}
                                ELSE outdated_entry \ {key}
    /\ outdated_fetch' = outdated_fetch \ {w}
    /\ UNCHANGED <<chain, observed>>

\* force_refresh_lookup_table when the RPC answer arrives.
RefreshStore(w) ==
    /\ alt_call[w].fn = "refresh"
    /\ alt_call[w].pc = "fetch"
    /\ LET key == alt_call[w].key
           fetched == alt_call[w].fetched
       IN  /\ cache' = IF fetched.ok
                       THEN MapInsert(cache, key,
                                LookupTableCacheEntry(fetched.addresses, 0, TRUE))
                       ELSE cache
           /\ Return(w, "refresh", fetched)
           /\ alt_ev' = AltEvent("refresh", w, key,
                                 IF fetched.ok THEN "refreshed" ELSE "refresh_failed",
                                 FALSE, FALSE, fetched)
           /\ outdated_entry' = IF ~fetched.ok THEN outdated_entry
                                ELSE IF w \in outdated_fetch
                                THEN outdated_entry \cup {key}
                                ELSE outdated_entry \ {key}
    /\ outdated_fetch' = outdated_fetch \ {w}
    /\ UNCHANGED <<chain, observed>>

\* The workers whose RPC request for one of the keys is under way.
InFlight(keys) ==
    { w \in Workers : alt_call[w].pc = "fetch" /\ alt_call[w].key \in keys }

\* extract_transactions_from_payload, one turn of the serial loop up to the
\* first cache lookup: the scan for extensions, then
\* resolve_transaction_account_keys.
ResolverBegin(transaction) ==
    /\ res.pc \in { "idle", "done" }
    /\ cache' = process_transaction_for_extensions(transaction)
    /\ observed' = observed \cup InvalidatedKeys(transaction)
    /\ outdated_fetch' = outdated_fetch \cup InFlight(InvalidatedKeys(transaction))
    /\ outdated_entry' = outdated_entry \ InvalidatedKeys(transaction)
    /\ IF transaction.lookups # <<>>
       THEN /\ res' = Resolving("resolving", transaction, 1,
                                transaction.account_keys, <<>>, <<>>, <<>>)
            /\ alt_call' = [alt_call EXCEPT ![Resolver] =
                  Frame("get", transaction.lookups[1].account_key, "check", NoFetch)]
       ELSE /\ res' = Resolving("done", transaction, 0,
                                transaction.account_keys, <<>>, <<>>, <<>>)
            /\ UNCHANGED alt_call
    /\ alt_ev' = AltEvent("scan", Resolver, "", "none", FALSE, FALSE, NoFetch)
    /\ UNCHANGED chain

\* The peer scans a transaction of its own payload.
PeerScan(transaction) ==
    /\ alt_call[Peer].fn = "idle"
    /\ InvalidatedKeys(transaction) # {}
    /\ cache' = process_transaction_for_extensions(transaction)
    /\ observed' = observed \cup InvalidatedKeys(transaction)
    /\ outdated_fetch' = outdated_fetch \cup InFlight(InvalidatedKeys(transaction))
    /\ outdated_entry' = outdated_entry \ InvalidatedKeys(transaction)
    /\ alt_ev' = AltEvent("scan", Peer, "", "none", FALSE, FALSE, NoFetch)
    /\ UNCHANGED <<chain, alt_call, res>>

\* The peer resolves a lookup of its own: get_lookup_table_addresses.
PeerGet(key) ==
    /\ alt_call[Peer].fn = "idle"
    /\ alt_call' = [alt_call EXCEPT ![Peer] = Frame("get", key, "check", NoFetch)]
    /\ UNCHANGED <<cache, chain, res, observed, outdated_fetch, outdated_entry, alt_ev>>

\* The peer met an out-of-bounds index: force_refresh_lookup_table, whose
\* RPC request goes out.
PeerRefresh(key) ==
    /\ alt_call[Peer].fn = "idle"
    /\ \E rpc_ok \in BOOLEAN :
         alt_call' = [alt_call EXCEPT ![Peer] =
             Frame("refresh", key, "fetch", fetch_lookup_table_from_rpc(key, rpc_ok))]
    /\ UNCHANGED <<cache, chain, res, observed, outdated_fetch, outdated_entry, alt_ev>>

\* An extension of the table lands on chain.
ExtendOnChain(key) ==
    /\ chain[key] # None
    /\ chain[key] < MaxTableSize
    /\ chain' = [chain EXCEPT ![key] = @ + 1]
    /\ UNCHANGED <<cache, alt_call, res, observed, outdated_fetch, outdated_entry, alt_ev>>

\* Time passes: every entry grows older.
AltTick ==
    /\ \E k \in DOMAIN cache : cache[k].last_updated < MaxCacheAge
    /\ cache' = [ k \in DOMAIN cache |->
                    [cache[k] EXCEPT !.last_updated =
                        IF @ + AltTickSecs > MaxCacheAge THEN MaxCacheAge
                        ELSE @ + AltTickSecs] ]
    /\ UNCHANGED <<chain, alt_call, res, observed, outdated_fetch, outdated_entry, alt_ev>>

InitAlt ==
    /\ IdleFec
    /\ IdleRoles
    /\ IdleTx
    /\ IdleParse
    /\ IdleStream
    /\ IdleIngest
    /\ cache = <<>>
    /\ chain = [ k \in TableKeys |-> 1 ]
    /\ alt_call = [ w \in Workers |-> IdleFrame ]
    /\ res = IdleResolving
    /\ observed = {}
    /\ outdated_fetch = {}
    /\ outdated_entry = {}
    /\ alt_ev = AltEvent("init", "", "", "none", FALSE, FALSE, NoFetch)

CheckCache == (\E w \in Workers : GetCheck(w)) /\ UNCHANGED notAlt

StoreFetched == (\E w \in Workers : GetStore(w)) /\ UNCHANGED notAlt

StoreFailure == (\E w \in Workers : GetStoreFailure(w)) /\ UNCHANGED notAlt

StoreRefreshed == (\E w \in Workers : RefreshStore(w)) /\ UNCHANGED notAlt

BeginTransaction == (\E transaction \in AltTxs : ResolverBegin(transaction)) /\ UNCHANGED notAlt

PeerScans == (\E transaction \in AltTxs : PeerScan(transaction)) /\ UNCHANGED notAlt

PeerGets == PeerGet("T1") /\ UNCHANGED notAlt

PeerRefreshes == PeerRefresh("T1") /\ UNCHANGED notAlt

Extension == ExtendOnChain("T1") /\ UNCHANGED notAlt

CacheAges == AltTick /\ UNCHANGED notAlt

NextAlt ==
    \/ BeginTransaction
    \/ CheckCache
    \/ StoreFetched
    \/ StoreFailure
    \/ StoreRefreshed
    \/ PeerScans
    \/ PeerGets
    \/ PeerRefreshes
    \/ Extension
    \/ CacheAges

SpecAlt == InitAlt /\ [][NextAlt]_vars

\* C3: once a scan has invalidated table T, the next lookup of T in the
\* cache does not return addresses cached from an RPC request that was sent
\* before the scan: it sends a request of its own, or finds what a request
\* sent after the scan has stored.
C3_NextGetFetches ==
    (alt_ev.op = "get" /\ alt_ev.outcome \in { "hit", "miss" }
        /\ alt_ev.after_observation)
    => ~(alt_ev.outcome = "hit" /\ alt_ev.outdated)

\* The key a lookup contributes for one of its indexes, given the size of
\* the table the resolver used for it (None when it had no table).
KeyAt(lookup, index, size) ==
    IF size # None /\ index < size
    THEN TableAddress(lookup.account_key, index)
    ELSE Placeholder

RECURSIVE ExpectedFrom(_, _, _)
ExpectedFrom(lookups, used, l) ==
    IF l > Len(lookups) THEN <<>>
    ELSE [ j \in DOMAIN lookups[l].readonly_indexes |->
             KeyAt(lookups[l], lookups[l].readonly_indexes[j], used[l]) ]
         \o
         [ j \in DOMAIN lookups[l].writable_indexes |->
             KeyAt(lookups[l], lookups[l].writable_indexes[j], used[l]) ]
         \o ExpectedFrom(lookups, used, l + 1)

AllInBounds(lookups, used) ==
    \A l \in DOMAIN lookups :
        /\ used[l] # None
        /\ \A j \in DOMAIN lookups[l].readonly_indexes :
               lookups[l].readonly_indexes[j] < used[l]
        /\ \A j \in DOMAIN lookups[l].writable_indexes :
               lookups[l].writable_indexes[j] < used[l]

\* C8: the keys a finished resolve returns are the base keys, then for each
\* lookup in list order the table's addresses at its readonly indexes and
\* then at its writable indexes; with every table obtained and every index
\* in bounds no placeholder is among them.
C8_ResolvedKeyOrder ==
    (res.pc = "done" /\ res.tx.lookups # <<>>) =>
        /\ res.resolved_keys =
             res.tx.account_keys \o ExpectedFrom(res.tx.lookups, res.used, 1)
        /\ AllInBounds(res.tx.lookups, res.used) =>
             \A j \in DOMAIN res.resolved_keys : res.resolved_keys[j] # Placeholder

C8_Witness ==
    /\ res.pc = "done"
    /\ res.tx = ExtendThenLookupTx
    /\ res.used = <<2>>
    /\ res.resolved_keys =
         <<"payer", "T1", AltProgram, TableAddress("T1", 0), TableAddress("T1", 1)>>

\* A worker's get_lookup_table_addresses has its RPC request answered by an
\* error while the cache holds a valid entry of the key older than the TTL.
StaleFallbackCase(w) ==
    /\ alt_call[w].fn = "get"
    /\ alt_call[w].pc = "fetch"
    /\ ~alt_call[w].fetched.ok
    /\ alt_call[w].key \in DOMAIN cache
    /\ cache[alt_call[w].key].is_valid
    /\ cache[alt_call[w].key].last_updated >= CacheTtlSecs

\* C13: get_lookup_table_addresses for a key whose entry is valid and older
\* than the TTL, with the fetch failing, returns Ok with the addresses of
\* that entry and leaves the cache as it was.
C13_StaleFallback ==
    [][ \A w \in Workers :
          (StaleFallbackCase(w) /\ GetStore(w))
            => /\ alt_ev'.ret =
                    [ok |-> TRUE, addresses |-> cache[alt_call[w].key].addresses]
               /\ cache' = cache ]_vars

C13_Witness ==
    /\ alt_ev.op = "get"
    /\ alt_ev.outcome = "stale"
    /\ alt_ev.key \in DOMAIN cache
    /\ cache[alt_ev.key].last_updated >= CacheTtlSecs
    /\ cache[alt_ev.key].is_valid
    /\ alt_ev.ret = [ok |-> TRUE, addresses |-> Addresses(alt_ev.key, 1)]

\* The keys a lookup advertises and where its keys start in the result.
SlotCount(lookup) == Len(lookup.readonly_indexes) + Len(lookup.writable_indexes)

RECURSIVE SlotsBefore(_, _)
SlotsBefore(lookups, l) ==
    IF l <= 1 THEN 0
    ELSE SlotsBefore(lookups, l - 1) + SlotCount(lookups[l - 1])

KeysOfLookup(l) ==
    LET start == Len(res.tx.account_keys) + SlotsBefore(res.tx.lookups, l)
    IN  SubSeq(res.resolved_keys, start + 1, start + SlotCount(res.tx.lookups[l]))

OutOfBounds(lookup, size) ==
    \/ \E j \in DOMAIN lookup.readonly_indexes : lookup.readonly_indexes[j] >= size
    \/ \E j \in DOMAIN lookup.writable_indexes : lookup.writable_indexes[j] >= size

\* C14: in a finished resolve, a lookup whose table was obtained with an
\* index at or beyond its size had force_refresh_lookup_table called exactly
\* once (and a lookup with every index in bounds never); the keys of such a
\* lookup are, index by index, the address of the refreshed table where the
\* index is inside it and the placeholder where it is not.  When the
\* refresh fails the table obtained before stands in for the refreshed one.
C14_OutOfBoundsRefresh ==
    res.pc = "done" =>
      \A l \in DOMAIN res.tx.lookups :
        LET lookup == res.tx.lookups[l]
            entry == res.log[l]
            size == IF entry.refreshed # None THEN entry.refreshed
                    ELSE entry.obtained
            indexes == lookup.readonly_indexes \o lookup.writable_indexes
        IN  entry.obtained # None =>
              /\ entry.refreshes = IF OutOfBounds(lookup, entry.obtained) THEN 1 ELSE 0
              /\ OutOfBounds(lookup, entry.obtained) =>
                    KeysOfLookup(l) =
                      [ j \in DOMAIN indexes |->
                          IF indexes[j] < size
                          THEN TableAddress(lookup.account_key, indexes[j])
                          ELSE Placeholder ]

\* An index equal to the size obtained, a refresh that returns a larger
\* table, and no placeholder.
C14_Witness ==
    /\ res.pc = "done"
    /\ res.tx = ExtendThenLookupTx
    /\ res.log = << LookupLog(1, 1, 2) >>
    /\ KeysOfLookup(1) = << TableAddress("T1", 0), TableAddress("T1", 1) >>

\* C15: a finished resolve returns |base keys| plus the advertised slots of
\* every lookup, with the base keys first; a lookup whose table was not
\* obtained holds placeholders in all its slots, and every lookup after it
\* is resolved into its own slots.
C15_FailureIsolation ==
    (res.pc = "done" /\ res.tx.lookups # <<>>) =>
      LET lookups == res.tx.lookups
          base == res.tx.account_keys
      IN  /\ Len(res.resolved_keys) =
                Len(base) + SlotsBefore(lookups, Len(lookups) + 1)
          /\ SubSeq(res.resolved_keys, 1, Len(base)) = base
          /\ \A l \in DOMAIN lookups :
                LET indexes == lookups[l].readonly_indexes \o lookups[l].writable_indexes
                IN  IF res.log[l].obtained = None
                    THEN KeysOfLookup(l) = [ j \in DOMAIN indexes |-> Placeholder ]
                    ELSE KeysOfLookup(l) =
                           [ j \in DOMAIN indexes |->
                               KeyAt(lookups[l], indexes[j], res.used[l]) ]

\* The first lookup fails, the second is resolved behind its placeholder.
C15_Witness ==
    /\ res.pc = "done"
    /\ res.tx = TwoTablesTx
    /\ res.log[1].obtained = None
    /\ res.resolved_keys =
         <<"payer", Placeholder, TableAddress("T1", 1), TableAddress("T1", 0)>>

\* The account an index of a compiled instruction refers to: a key of the
\* message itself, or behind them a key loaded through the lookups from the
\* tables as they are on chain.
AccountAt(transaction, index) ==
    LET all == transaction.account_keys
                 \o ExpectedFrom(transaction.lookups,
                                 [ l \in DOMAIN transaction.lookups |->
                                     chain[transaction.lookups[l].account_key] ],
                                 1)
    IN  IF index + 1 \in DOMAIN all THEN all[index + 1] ELSE Placeholder

\* The transaction holds an instruction of the address-lookup-table program
\* whose data starts with 02 00 00 00 and whose first account is table.
ExtendsTable(transaction, table) ==
    \E i \in DOMAIN transaction.instructions :
        LET instruction == transaction.instructions[i]
        IN  /\ AccountAt(transaction, instruction.program_id_index) = AltProgram
            /\ Len(instruction.data) >= 4
            /\ SubSeq(instruction.data, 1, 4) = <<2, 0, 0, 0>>
            /\ instruction.accounts # <<>>
            /\ AccountAt(transaction, instruction.accounts[1]) = table

\* C16: the scan of a transaction removes the cache entry of a key exactly
\* when the transaction holds an ExtendLookupTable instruction whose first
\* account refers to that key; every other entry stays as it was.
C16_ExtendDetection ==
    [][ \A transaction \in AltTxs :
          ResolverBegin(transaction) =>
            /\ DOMAIN cache' \subseteq DOMAIN cache
            /\ \A table \in DOMAIN cache :
                  /\ table \notin DOMAIN cache' <=> ExtendsTable(transaction, table)
                  /\ table \in DOMAIN cache' => cache'[table] = cache[table] ]_vars

\* The same for the instructions whose first account is a key of the
\* message itself.
C16_DirectExtendDetection ==
    [][ \A transaction \in AltTxs \ { IndirectExtendTx } :
          ResolverBegin(transaction) =>
            /\ DOMAIN cache' \subseteq DOMAIN cache
            /\ \A table \in DOMAIN cache :
                  /\ table \notin DOMAIN cache' <=> ExtendsTable(transaction, table)
                  /\ table \in DOMAIN cache' => cache'[table] = cache[table] ]_vars

\* Worker w's get_lookup_table_addresses has sent an RPC request.
GetFetches(w) == alt_call'[w].fn = "get" /\ alt_call'[w].pc = "fetch"

\* The cache holds an invalid entry of the key that is younger than the TTL.
FailureCached(key) ==
    /\ key \in DOMAIN cache
    /\ ~cache[key].is_valid
    /\ cache[key].last_updated < CacheTtlSecs

\* C26: a failed fetch with no valid entry to fall back on stores an invalid
\* entry with no addresses and returns the error, and a
\* get_lookup_table_addresses of the key within the TTL of that entry sends
\* no RPC request.
C26_FailureSuppressesRetry ==
    [][ \A w \in Workers :
          /\ GetStoreFailure(w)
               => /\ cache'[alt_call[w].key] = LookupTableCacheEntry(<<>>, 0, FALSE)
                  /\ ~alt_ev'.ret.ok
          /\ (GetCheck(w) /\ FailureCached(alt_call[w].key))
               => ~GetFetches(w) ]_vars

\* The cache holds a valid entry of the key that is younger than the TTL.
FreshEntry(key) ==
    /\ key \in DOMAIN cache
    /\ cache[key].is_valid
    /\ cache[key].last_updated < CacheTtlSecs

\* C27: get_lookup_table_addresses on a valid entry younger than the TTL
\* returns its addresses, sends no RPC request and leaves the cache as it
\* is; otherwise it sends a request, and a successful answer is stored as a
\* valid entry with exactly the fetched addresses and returned.
C27_HitAndStore ==
    [][ \A w \in Workers :
          LET key == alt_call[w].key
              fetched == alt_call[w].fetched
          IN  /\ (GetCheck(w) /\ FreshEntry(key))
                   => /\ alt_ev'.outcome = "hit"
                      /\ alt_ev'.ret = [ok |-> TRUE, addresses |-> cache[key].addresses]
                      /\ ~GetFetches(w)
                      /\ UNCHANGED cache
              /\ (GetCheck(w) /\ ~FreshEntry(key))
                   => GetFetches(w) /\ UNCHANGED cache
              /\ (GetStore(w) /\ fetched.ok)
                   => /\ DOMAIN cache' = DOMAIN cache \cup {key}
                      /\ cache'[key].is_valid
                      /\ cache'[key].addresses = fetched.addresses
                      /\ cache'[key].last_updated = 0
                      /\ \A k \in DOMAIN cache \ {key} : cache'[k] = cache[k]
                      /\ alt_ev'.ret = fetched ]_vars

\* Reached: a get_lookup_table_addresses of T1 fetched the table after its
\* extension and stored it.
C27_Witness ==
    /\ alt_ev.op = "get"
    /\ alt_ev.outcome = "fetched"
    /\ alt_ev.key = "T1"
    /\ cache["T1"].is_valid
    /\ cache["T1"].addresses = alt_ev.ret.addresses
    /\ Len(alt_ev.ret.addresses) = MaxTableSize

\* C28: force_refresh_lookup_table starts with the RPC request whatever the
\* cache holds; a successful answer replaces the entry by a valid one with
\* the fetched addresses and a fresh timestamp, a failed one leaves the
\* cache as it is and returns the error.
C28_ForceRefresh ==
    [][ \A w \in Workers :
          LET key == alt_call[w].key
              fetched == alt_call[w].fetched
          IN  /\ (alt_call[w].fn # "refresh" /\ alt_call'[w].fn = "refresh")
                   => alt_call'[w].pc = "fetch"
              /\ (RefreshStore(w) /\ fetched.ok)
                   => /\ DOMAIN cache' = DOMAIN cache \cup {key}
                      /\ cache'[key] = LookupTableCacheEntry(fetched.addresses, 0, TRUE)
                      /\ \A k \in DOMAIN cache \ {key} : cache'[k] = cache[k]
                      /\ alt_ev'.ret = fetched
              /\ (RefreshStore(w) /\ ~fetched.ok)
                   => /\ UNCHANGED cache
                      /\ ~alt_ev'.ret.ok ]_vars

\* Reached: a refresh of T1 failed while the cache held a valid entry of T1
\* younger than the TTL, which is still there.
C28_Witness ==
    /\ alt_ev.op = "refresh"
    /\ alt_ev.outcome = "refresh_failed"
    /\ FreshEntry(alt_ev.key)

\* C37: whenever get_lookup_table_addresses writes the invalid entry of a
\* failed fetch, the cache holds no valid entry for the key at the moment
\* of the write, whatever the other worker has done on the key meanwhile.
C37_FailureKeepsValidEntry ==
    [][ \A w \in Workers :
          GetStoreFailure(w)
            => ~(/\ alt_call[w].key \in DOMAIN cache
                 /\ cache[alt_call[w].key].is_valid) ]_vars

\* C38: the answer of a request that was in flight when its table was
\* invalidated is not served from the cache: a get_lookup_table_addresses
\* that finds the entry such a request has stored sends a request of its own.
C38_OlderFetchNotServed ==
    [][ \A w \in Workers :
          (GetCheck(w) /\ alt_call[w].key \in outdated_entry) => GetFetches(w) ]_vars

----------------------------------------------------------------------------
(***************************************************************************)
(* The byte walker (decoder/byte_parser.rs).                               *)
(*                                                                         *)
(* A primitive reads data at offset and returns a value or an error; the   *)
(* offset is a &mut usize, so what the primitive leaves in it is part of   *)
(* its result.  A u32 or a u64 does not fit the 32-bit integers of TLC     *)
(* and is kept as its 16-bit limbs, least significant first.               *)
(***************************************************************************)

\* Bounds of the byte-walker model.
\* slices of arbitrary bytes up to this length
MaxRawLen == 2
\* a length prefix up to this count, followed by up to MaxBodyLen bytes
MaxCount == 2
MaxBodyLen == 3

\* Widths of the primitives.
PubkeyLen == 32
U64Len == 8
U32Len == 4
U16Len == 2

\* The byte values of the slices: 0, 1 and 2 as tags and counts, 65 ("A")
\* as text, 200 as a byte that no UTF-8 text of these values contains.
Bytes == { 0, 1, 2, 65, 200 }

RECURSIVE SeqsUpTo(_, _)
SeqsUpTo(S, n) ==
    IF n = 0 THEN { <<>> }
    ELSE SeqsUpTo(S, n - 1)
         \cup { Append(s, b) : s \in { x \in SeqsUpTo(S, n - 1) : Len(x) = n - 1 },
                               b \in S }

Zeros(n) == [ i \in 1..n |-> 0 ]

\* A count as a u32 length prefix.
LengthPrefix(k) == <<k, 0, 0, 0>>

DataSlices ==
    SeqsUpTo(Bytes, MaxRawLen)
    \cup { LengthPrefix(k) \o body :
             k \in 0..MaxCount, body \in SeqsUpTo({ 65, 200 }, MaxBodyLen) }
    \cup { <<1, 0, 0, 0>> \o LengthPrefix(1) \o <<b>> : b \in { 65, 200 } }
    \cup { <<tag>> \o Zeros(n) : tag \in { 0, 1, 2 }, n \in { 0, U64Len - 1, U64Len } }
    \cup { Zeros(n) : n \in { PubkeyLen - 1, PubkeyLen } }

\* Result<T, String> together with the offset the call leaves behind.
ParseOk(value, new_offset) == [ok |-> TRUE, value |-> value, offset |-> new_offset]

ParseErr(new_offset) == [ok |-> FALSE, value |-> <<>>, offset |-> new_offset]

\* data[offset..offset + n]
Slice(bytes, at, n) == SubSeq(bytes, at + 1, at + n)

\* The bytes taken most significant first.
u16_from_be_bytes(le_bytes) == 256 * le_bytes[1] + le_bytes[2]

\* u16::from_le_bytes
u16_from_le_bytes(le_bytes) == le_bytes[1] + 256 * le_bytes[2]

\* u32::from_le_bytes and u64::from_le_bytes: the limbs of the value.
limbs_from_le_bytes(le_bytes) ==
    [ i \in 1..(Len(le_bytes) \div 2) |->
        u16_from_le_bytes(<<le_bytes[2 * i - 1], le_bytes[2 * i]>>) ]

\* i32::from_le_bytes: the 32 bits in two's complement.
i32_from_le_bytes(le_bytes) ==
    LET limbs == limbs_from_le_bytes(le_bytes)
    IN  limbs[1] + 65536 * (IF limbs[2] >= 32768 THEN limbs[2] - 65536 ELSE limbs[2])

\* A u32 read as usize.  No slice is as long as 65536 bytes, so every value
\* with a non-zero upper limb compares alike with a length.
as_usize(limbs) == IF limbs[2] # 0 THEN 65536 ELSE limbs[1]

\* String::from_utf8 succeeds: over Bytes, exactly the ASCII texts.
from_utf8_ok(bytes) == \A i \in DOMAIN bytes : bytes[i] < 128

parse_u8(bytes, at) ==
    IF Len(bytes) < at + 1 THEN ParseErr(at)
    ELSE ParseOk(bytes[at + 1], at + 1)

parse_u16(bytes, at) ==
    IF Len(bytes) < at + U16Len THEN ParseErr(at)
    ELSE ParseOk(u16_from_le_bytes(Slice(bytes, at, U16Len)), at + U16Len)

parse_u32(bytes, at) ==
    IF Len(bytes) < at + U32Len THEN ParseErr(at)
    ELSE ParseOk(limbs_from_le_bytes(Slice(bytes, at, U32Len)), at + U32Len)

parse_i32(bytes, at) ==
    IF Len(bytes) < at + U32Len THEN ParseErr(at)
    ELSE ParseOk(i32_from_le_bytes(Slice(bytes, at, U32Len)), at + U32Len)

parse_u64(bytes, at) ==
    IF Len(bytes) < at + U64Len THEN ParseErr(at)
    ELSE ParseOk(limbs_from_le_bytes(Slice(bytes, at, U64Len)), at + U64Len)

\* Pubkey::new_from_array: a Pubkey is its 32 bytes.
parse_pubkey(bytes, at) ==
    IF Len(bytes) < at + PubkeyLen THEN ParseErr(at)
    ELSE ParseOk(Slice(bytes, at, PubkeyLen), at + PubkeyLen)

parse_bool(bytes, at) ==
    IF Len(bytes) < at + 1 THEN ParseErr(at)
    ELSE ParseOk(bytes[at + 1] # 0, at + 1)

parse_string(bytes, at) ==
    IF Len(bytes) < at + U32Len THEN ParseErr(at)
    ELSE LET str_len == as_usize(limbs_from_le_bytes(Slice(bytes, at, U32Len)))
             body == at + U32Len
         IN  IF Len(bytes) < body + str_len THEN ParseErr(body)
             ELSE IF ~from_utf8_ok(Slice(bytes, body, str_len)) THEN ParseErr(body)
             ELSE ParseOk(Slice(bytes, body, str_len), body + str_len)

parse_option_u64(bytes, at) ==
    LET discriminant == parse_u8(bytes, at)
    IN  IF ~discriminant.ok THEN discriminant
        ELSE IF discriminant.value = 0
        THEN ParseOk([some |-> FALSE, value |-> <<>>], discriminant.offset)
        ELSE IF discriminant.value = 1
        THEN LET value == parse_u64(bytes, discriminant.offset)
             IN  IF ~value.ok THEN value
                 ELSE ParseOk([some |-> TRUE, value |-> value.value], value.offset)
        ELSE ParseErr(discriminant.offset)

\* The element parsers parse_vec is called with (parse_vec_u8, parse_vec_u16,
\* parse_vec_u32, parse_vec_u64, parse_vec_string, parse_vec_pubkey).
ElementParsers == { "u8", "u16", "u32", "u64", "string", "pubkey" }

element_parser(kind, bytes, at) ==
    CASE kind = "u8" -> parse_u8(bytes, at)
      [] kind = "u16" -> parse_u16(bytes, at)
      [] kind = "u32" -> parse_u32(bytes, at)
      [] kind = "u64" -> parse_u64(bytes, at)
      [] kind = "string" -> parse_string(bytes, at)
      [] kind = "pubkey" -> parse_pubkey(bytes, at)

\* parse_vec, the element loop from element i on.
RECURSIVE parse_elements(_, _, _, _, _, _)
parse_elements(kind, bytes, at, i, vec_len, vec) ==
    IF i >= vec_len THEN ParseOk(vec, at)
    ELSE LET element == element_parser(kind, bytes, at)
         IN  IF ~element.ok THEN element
             ELSE parse_elements(kind, bytes, element.offset, i + 1, vec_len,
                                 Append(vec, element.value))

parse_vec(kind, bytes, at) ==
    LET vec_len == parse_u32(bytes, at)
    IN  IF ~vec_len.ok THEN vec_len
        ELSE parse_elements(kind, bytes, vec_len.offset, 0,
                            as_usize(vec_len.value), <<>>)

\* A decoder calls a primitive on its data at its offset.
Call(primitive, result) ==
    /\ offset' = result.offset
    /\ parse_ev' = ParseEvent(primitive, offset, result.ok, result.value)
    /\ UNCHANGED data
    /\ UNCHANGED notParse

CallU8 == Call("parse_u8", parse_u8(data, offset))

CallU16 == Call("parse_u16", parse_u16(data, offset))

CallU32 == Call("parse_u32", parse_u32(data, offset))

CallI32 == Call("parse_i32", parse_i32(data, offset))

CallU64 == Call("parse_u64", parse_u64(data, offset))

CallPubkey == Call("parse_pubkey", parse_pubkey(data, offset))

CallBool == Call("parse_bool", parse_bool(data, offset))

CallString == Call("parse_string", parse_string(data, offset))

CallOptionU64 == Call("parse_option_u64", parse_option_u64(data, offset))

CallVec ==
    \E kind \in ElementParsers :
        Call("parse_vec_" \o kind, parse_vec(kind, data, offset))

InitParse ==
    /\ IdleFec
    /\ IdleRoles
    /\ IdleTx
    /\ IdleAlt
    /\ IdleStream
    /\ IdleIngest
    /\ data \in DataSlices
    /\ offset \in 0..1
    /\ parse_ev = ParseEvent("none", 0, TRUE, <<>>)

NextParse ==
    \/ CallU8
    \/ CallU16
    \/ CallU32
    \/ CallI32
    \/ CallU64
    \/ CallPubkey
    \/ CallBool
    \/ CallString
    \/ CallOptionU64
    \/ CallVec

SpecParse == InitParse /\ [][NextParse]_vars

\* C19: a primitive that returns an error leaves offset where it was before
\* the call.
C19_ErrorLeavesOffset ==
    (parse_ev.primitive # "none" /\ ~parse_ev.ok) => offset = parse_ev.before

\* The byte of data at position at, counted from 0.
ByteAt(at) == data[at + 1]

\* The unsigned value of the 16 bits at position at, low byte first.
Limb(at) == ByteAt(at) + 256 * ByteAt(at + 1)

\* What the encodings say is stored at position at: the value, and the
\* number of bytes it takes.
Encoded(kind, at) ==
    CASE kind = "u8" -> [value |-> ByteAt(at), size |-> 1]
      [] kind = "bool" -> [value |-> ByteAt(at) # 0, size |-> 1]
      [] kind = "u16" -> [value |-> Limb(at), size |-> 2]
      [] kind = "u32" -> [value |-> <<Limb(at), Limb(at + 2)>>, size |-> 4]
      [] kind = "i32" ->
           [value |-> ByteAt(at) + 256 * ByteAt(at + 1) + 65536 * ByteAt(at + 2)
                        + 16777216 * (IF ByteAt(at + 3) >= 128
                                      THEN ByteAt(at + 3) - 256
                                      ELSE ByteAt(at + 3)),
            size |-> 4]
      [] kind = "u64" ->
           [value |-> <<Limb(at), Limb(at + 2), Limb(at + 4), Limb(at + 6)>>,
            size |-> 8]
      [] kind = "pubkey" -> [value |-> [ i \in 1..32 |-> ByteAt(at + i - 1) ], size |-> 32]
      [] kind = "string" ->
           [value |-> [ i \in 1..Limb(at) |-> ByteAt(at + 3 + i) ],
            size |-> 4 + Limb(at)]
      [] kind = "option_u64" ->
           IF ByteAt(at) = 0
           THEN [value |-> [some |-> FALSE, value |-> <<>>], size |-> 1]
           ELSE [value |-> [some |-> TRUE,
                            value |-> <<Limb(at + 1), Limb(at + 3),
                                        Limb(at + 5), Limb(at + 7)>>],
                 size |-> 9]

\* The position of the i-th element (from 1) of a vec stored at position at:
\* behind the length and the elements before it.
RECURSIVE ElementAt(_, _, _)
ElementAt(kind, at, i) ==
    IF i = 1 THEN at + 4
    ELSE ElementAt(kind, at, i - 1) + Encoded(kind, ElementAt(kind, at, i - 1)).size

Primitives ==
    { "u8", "bool", "u16", "u32", "i32", "u64", "pubkey", "string", "option_u64" }

\* C35: a primitive that succeeds returns the value encoded at the offset it
\* was called with and leaves offset advanced by the bytes of the encoding:
\* 1 for u8 and bool, 2 for u16, 4 for u32 and i32, 8 for u64, 32 for a
\* pubkey, 4 + len for a string, 1 or 9 for an option<u64>, and for a vec 4
\* plus the sizes of its n elements.
C35_SuccessAdvances ==
    (parse_ev.primitive # "none" /\ parse_ev.ok) =>
        /\ \A kind \in Primitives :
             parse_ev.primitive = "parse_" \o kind =>
                /\ parse_ev.value = Encoded(kind, parse_ev.before).value
                /\ offset = parse_ev.before + Encoded(kind, parse_ev.before).size
        /\ \A kind \in ElementParsers :
             parse_ev.primitive = "parse_vec_" \o kind =>
                /\ Len(parse_ev.value) = Limb(parse_ev.before)
                /\ \A i \in DOMAIN parse_ev.value :
                     parse_ev.value[i]
                        = Encoded(kind, ElementAt(kind, parse_ev.before, i)).value
                /\ offset = ElementAt(kind, parse_ev.before, Len(parse_ev.value) + 1)

\* A vec of one string has been parsed: 4 bytes of count, 4 of length, 1 of
\* text.
C35_Witness ==
    /\ parse_ev.primitive = "parse_vec_string"
    /\ parse_ev.ok
    /\ parse_ev.before = 0
    /\ parse_ev.value = << <<65>> >>
    /\ offset = 9

----------------------------------------------------------------------------
(***************************************************************************)
(* The broadcast channel and the gRPC streams (main.rs, grpc_server.rs).   *)
(*                                                                         *)
(* main creates a tokio broadcast channel and drops its first receiver;    *)
(* every stream_transactions call subscribes a receiver and wraps it in a  *)
(* BroadcastStream whose errors a filter_map drops.  The channel is a ring *)
(* of slots tagged with the position of the value they hold; send and     *)
(* recv each take the channel's lock, so each is one step.                 *)
(***************************************************************************)

\* Bounds of the channel model.
\* the number of slots (broadcast::channel(1000) in main)
Capacity == 2
\* send calls in one run
MaxSends == 5

\* The gRPC clients.
Clients == { "a", "b" }

\* A slot of the ring: the position of the value it holds, and the value.
Slot(pos, val) == [pos |-> pos, val |-> val]

\* The value of the n-th send call: (json, timestamp).
SentValue(n) == <<n, n>>

\* Ok((json, timestamp)) => Some(Ok(TransactionResponse { .. }))
TransactionResponse(item) == [transaction_json |-> item[1], timestamp |-> item[2]]

\* A client's receiver and stream.  delivered is what the stream yielded;
\* skipped is the set of positions the receiver jumped over on a lag error.
Receiver(state, next, subscribed_at, delivered, skipped, lag_errors) ==
    [state |-> state, next |-> next, subscribed_at |-> subscribed_at,
     delivered |-> delivered, skipped |-> skipped, lag_errors |-> lag_errors]

NoReceiver == Receiver("none", 0, 0, <<>>, {}, 0)

\* Sender::subscribe: the receiver starts at the tail.
subscribe(at) == Receiver("open", at, at, <<>>, {}, 0)

\* The receivers alive (rx_cnt of the channel).
rx_cnt == Cardinality({ c \in Clients : rx[c].state = "open" })

\* Ok(item) of the stream: the filter_map passes the response on.
on_item_passed(r, item) ==
    [r EXCEPT !.next = r.next + 1,
              !.delivered = Append(r.delivered, TransactionResponse(item))]

\* A stream that ends on a lag error instead of dropping it.
on_lagged_ending(r, next) ==
    [r EXCEPT !.state = "ended"]

\* Err(Lagged) of the stream: the receiver has moved to the oldest position
\* the ring still holds, and the filter_map yields nothing for the error.
on_lagged(r, next) ==
    [r EXCEPT !.next = next,
              !.skipped = r.skipped \cup r.next..(next - 1),
              !.lag_errors = r.lag_errors + 1]

\* Receiver::recv has nothing to return yet: the slot of r.next still holds
\* the value of one lap before.
recv_empty(r) == buffer[r.next % Capacity].pos + Capacity = r.next

\* One poll of a client's stream with a value or a lag to return.
poll_next(r) ==
    LET slot == buffer[r.next % Capacity]
        next == tail - Capacity
    IN  IF slot.pos = r.next THEN on_item_passed(r, slot.val)
        ELSE IF next = r.next THEN on_item_passed(r, slot.val)
        ELSE on_lagged(r, next)

\* stream_transactions: a client subscribes.
StreamTransactions(c) ==
    /\ rx[c].state = "none"
    /\ rx' = [rx EXCEPT ![c] = subscribe(tail)]
    /\ UNCHANGED <<buffer, tail, send_log, send_ev>>

\* tonic polls the stream of client c.
PollStream(c) ==
    /\ rx[c].state = "open"
    /\ ~recv_empty(rx[c])
    /\ rx' = [rx EXCEPT ![c] = poll_next(rx[c])]
    /\ UNCHANGED <<buffer, tail, send_log, send_ev>>

\* The client goes away and its stream, with the receiver, is dropped.
DropStream(c) ==
    /\ rx[c].state = "open"
    /\ rx' = [rx EXCEPT ![c].state = "dropped"]
    /\ UNCHANGED <<buffer, tail, send_log, send_ev>>

\* broadcast_tx.send: an error when no receiver is alive, else the value
\* goes into the slot of the tail, whatever that slot holds.
Send ==
    /\ send_ev.calls < MaxSends
    /\ LET value == SentValue(send_ev.calls + 1)
       IN  IF rx_cnt = 0
           THEN /\ send_ev' = [calls |-> send_ev.calls + 1, ok |-> FALSE]
                /\ UNCHANGED <<buffer, tail, send_log>>
           ELSE /\ buffer' = [buffer EXCEPT ![tail % Capacity] = Slot(tail, value)]
                /\ tail' = tail + 1
                /\ send_log' = Append(send_log, value)
                /\ send_ev' = [calls |-> send_ev.calls + 1, ok |-> TRUE]
    /\ UNCHANGED rx

InitStream ==
    /\ IdleFec
    /\ IdleRoles
    /\ IdleTx
    /\ IdleAlt
    /\ IdleParse
    /\ IdleIngest
    /\ buffer = [ i \in 0..(Capacity - 1) |-> Slot(i - Capacity, <<>>) ]
    /\ tail = 0
    /\ rx = [ c \in Clients |-> NoReceiver ]
    /\ send_log = <<>>
    /\ send_ev = [calls |-> 0, ok |-> TRUE]

Subscribes == \E c \in Clients : StreamTransactions(c) /\ UNCHANGED notStream

Polls == \E c \in Clients : PollStream(c) /\ UNCHANGED notStream

Drops == \E c \in Clients : DropStream(c) /\ UNCHANGED notStream

Sends == Send /\ UNCHANGED notStream

NextStream ==
    \/ Subscribes
    \/ Polls
    \/ Drops
    \/ Sends

SpecStream == InitStream /\ [][NextStream]_vars

\* The positions a receiver has gone past, in order, without the skipped.
RECURSIVE PositionsKept(_, _, _)
PositionsKept(from, to, skipped) ==
    IF from >= to THEN <<>>
    ELSE IF from \in skipped THEN PositionsKept(from + 1, to, skipped)
    ELSE <<from>> \o PositionsKept(from + 1, to, skipped)

ResponsesAt(positions) ==
    [ i \in DOMAIN positions |-> TransactionResponse(send_log[positions[i] + 1]) ]

\* C20: a lag costs a client only positions the ring had already
\* overwritten, and its stream stays open behind the dropped error; every
\* client's stream has yielded, in send order, every value accepted since it
\* subscribed up to where its receiver stands, minus its own skipped ones,
\* whatever the other clients do; and a send call can always be made.
C20_LagIsolation ==
    /\ \A c \in Clients :
         /\ rx[c].state # "ended"
         /\ rx[c].state # "none" =>
              /\ rx[c].next <= tail
              /\ \A p \in rx[c].skipped :
                   /\ rx[c].subscribed_at <= p
                   /\ p + Capacity < tail
              /\ rx[c].delivered =
                   ResponsesAt(PositionsKept(rx[c].subscribed_at, rx[c].next,
                                             rx[c].skipped))
    /\ send_ev.calls < MaxSends => ENABLED Send

\* Reached: client a lagged and its stream yielded a value past the gap,
\* while client b, subscribed from the start, has every value accepted.
C20_Witness ==
    /\ rx["a"].lag_errors >= 1
    /\ \E p \in rx["a"].skipped : rx["a"].next > p + 1
    /\ rx["a"].delivered # <<>>
    /\ rx["b"].state = "open"
    /\ rx["b"].subscribed_at = 0
    /\ rx["b"].skipped = {}
    /\ tail > Capacity + 1
    /\ Len(rx["b"].delivered) = tail

----------------------------------------------------------------------------
(***************************************************************************)
(* The receive loop step by step (main.rs, shreds_processing.rs).          *)
(*                                                                         *)
(* socket_task receives one datagram at a time and awaits collect_shred,   *)
(* which calls add_shred.  add_shred holds the guard of the block's map    *)
(* entry from fec_blocks.entry() to drop(fec_block); while it is held, the *)
(* decode workers' get and remove of that key and the garbage collector's  *)
(* retain wait.  locked is the set of keys whose guard is held.            *)
(***************************************************************************)

\* The shortest datagram collect_shred looks at.
SIZE_OF_COMMON_SHRED_HEADER == 83
\* The receive buffer of socket_task.
BufLen == 1232

NoShred == Shred(0, 0, 0, "None", 0, 0, FALSE, FALSE)

\* A datagram: its size and what Shred::new_from_serialized_shred makes of
\* it.
Datagram(size, ok, shred) ==
    [size |-> size, parsed |-> [ok |-> ok, shred |-> shred]]

NoDatagram == Datagram(0, FALSE, NoShred)

ShredDatagrams(shreds) == { Datagram(BufLen, TRUE, sh) : sh \in shreds }

ShortDatagram == Datagram(SIZE_OF_COMMON_SHRED_HEADER - 1, FALSE, NoShred)

MalformedDatagram == Datagram(SIZE_OF_COMMON_SHRED_HEADER, FALSE, NoShred)

\* A data shred of set k whose index is below the fec_set_index.
MisindexedData(k) ==
    { Shred(k[1], k[2], k[2] - 1, "Data", 0, 0, FALSE, FALSE) }

\* The runs: the set of HighKey with a misindexed shred, or the set of
\* LowKey; a short and a malformed datagram in both.
IngestWires ==
    { ShredDatagrams(Produced(HighKey) \cup MisindexedData(HighKey))
        \cup { ShortDatagram, MalformedDatagram },
      ShredDatagrams(Produced(LowKey))
        \cup { ShortDatagram, MalformedDatagram } }

\* Shred::new_from_serialized_shred
new_from_serialized_shred(datagram) == datagram.parsed

\* socket_task: where it is, the datagram it is handling or handled last,
\* add_shred's should_decode, and what collect_shred returned.
Ingress(pc, datagram, should_decode, ret) ==
    [pc |-> pc, datagram |-> datagram, should_decode |-> should_decode,
     ret |-> ret]

\* collect_shred returns to the loop, which logs an error and receives the
\* next datagram.
LoopReturns(datagram, key, ret, outcome, complete) ==
    /\ ingress' = Ingress("recv", datagram, FALSE, ret)
    /\ ev' = Event("collect_shred", key, outcome, complete, NoResult)

\* The part of the state the steps of the loop and of the garbage collector
\* leave alone.
notIngest == <<roleVars, txVars, altVars, parseVars, streamVars>>

IngressReceive_unchecked_index(datagram) ==
    /\ ingress.pc = "recv"
    /\ IF datagram.size < SIZE_OF_COMMON_SHRED_HEADER
       THEN /\ LoopReturns(datagram, <<0, 0>>, "Ok", "short", FALSE)
            /\ UNCHANGED <<fec_blocks, locked>>
       ELSE IF ~new_from_serialized_shred(datagram).ok
       THEN /\ LoopReturns(datagram, <<0, 0>>, "Err", "parse_error", FALSE)
            /\ UNCHANGED <<fec_blocks, locked>>
       ELSE LET sh == new_from_serialized_shred(datagram).shred
                key == KeyOf(sh)
                fec_block == IF key \in DOMAIN fec_blocks THEN fec_blocks[key]
                             ELSE FecBlockNew(key[1], key[2])
                r == InsertShred(fec_block, sh)
                started == IF r.block.collection_start = None
                           THEN [r.block EXCEPT !.collection_start = 0]
                           ELSE r.block
            IN  IF key \in processed_blocks
                THEN /\ LoopReturns(datagram, key, "Ok", "processed", FALSE)
                     /\ UNCHANGED <<fec_blocks, locked>>
                ELSE /\ spawned[key] + decode_count[key] < MaxSpawns
                     /\ IF sh.slot # fec_block.slot
                        THEN /\ fec_blocks' = MapInsert(fec_blocks, key, fec_block)
                             /\ LoopReturns(datagram, key, "Err", "slot_mismatch", FALSE)
                             /\ UNCHANGED locked
                        ELSE IF r.outcome = "duplicate"
                        THEN /\ LoopReturns(datagram, key, "Ok", "duplicate", FALSE)
                             /\ UNCHANGED <<fec_blocks, locked>>
                        ELSE /\ fec_blocks' = MapInsert(fec_blocks, key, started)
                             /\ locked' = locked \cup {key}
                             /\ ingress' = Ingress("expire_check", datagram, FALSE, "none")
                             /\ ev' = Event("add_shred", key, "holding", FALSE, NoResult)
    /\ UNCHANGED <<wire, processed_blocks, processed_age, spawned, running,
                   decode_count, gc_due, gc_alive, gc_pc, swept>>

IngressReceive_ungated(datagram) ==
    /\ ingress.pc = "recv"
    /\ IF datagram.size < SIZE_OF_COMMON_SHRED_HEADER
       THEN /\ LoopReturns(datagram, <<0, 0>>, "Ok", "short", FALSE)
            /\ UNCHANGED <<fec_blocks, locked>>
       ELSE IF ~new_from_serialized_shred(datagram).ok
       THEN /\ LoopReturns(datagram, <<0, 0>>, "Err", "parse_error", FALSE)
            /\ UNCHANGED <<fec_blocks, locked>>
       ELSE LET sh == new_from_serialized_shred(datagram).shred
                key == KeyOf(sh)
                fec_block == IF key \in DOMAIN fec_blocks THEN fec_blocks[key]
                             ELSE FecBlockNew(key[1], key[2])
                r == InsertShred(fec_block, sh)
                started == IF r.block.collection_start = None
                           THEN [r.block EXCEPT !.collection_start = 0]
                           ELSE r.block
            IN  IF sh.index < sh.fec_set_index
                THEN /\ LoopReturns(datagram, key, "Err", "index_error", FALSE)
                     /\ UNCHANGED <<fec_blocks, locked>>
                ELSE /\ spawned[key] + decode_count[key] < MaxSpawns
                     /\ IF sh.slot # fec_block.slot
                        THEN /\ fec_blocks' = MapInsert(fec_blocks, key, fec_block)
                             /\ LoopReturns(datagram, key, "Err", "slot_mismatch", FALSE)
                             /\ UNCHANGED locked
                        ELSE IF r.outcome = "duplicate"
                        THEN /\ LoopReturns(datagram, key, "Ok", "duplicate", FALSE)
                             /\ UNCHANGED <<fec_blocks, locked>>
                        ELSE /\ fec_blocks' = MapInsert(fec_blocks, key, started)
                             /\ locked' = locked \cup {key}
                             /\ ingress' = Ingress("expire_check", datagram, FALSE, "none")
                             /\ ev' = Event("add_shred", key, "holding", FALSE, NoResult)
    /\ UNCHANGED <<wire, processed_blocks, processed_age, spawned, running,
                   decode_count, gc_due, gc_alive, gc_pc, swept>>

\* The insertion that leaves collection_start as it found it.
IngressReceive_unstarted(datagram) ==
    /\ ingress.pc = "recv"
    /\ IF datagram.size < SIZE_OF_COMMON_SHRED_HEADER
       THEN /\ LoopReturns(datagram, <<0, 0>>, "Ok", "short", FALSE)
            /\ UNCHANGED <<fec_blocks, locked>>
       ELSE IF ~new_from_serialized_shred(datagram).ok
       THEN /\ LoopReturns(datagram, <<0, 0>>, "Err", "parse_error", FALSE)
            /\ UNCHANGED <<fec_blocks, locked>>
       ELSE LET sh == new_from_serialized_shred(datagram).shred
                key == KeyOf(sh)
                fec_block == IF key \in DOMAIN fec_blocks THEN fec_blocks[key]
                             ELSE FecBlockNew(key[1], key[2])
                r == InsertShred(fec_block, sh)
                started == IF r.block.collection_start = None
                           THEN [r.block EXCEPT !.collection_start = 0]
                           ELSE r.block
            IN  IF key \in processed_blocks
                THEN /\ LoopReturns(datagram, key, "Ok", "processed", FALSE)
                     /\ UNCHANGED <<fec_blocks, locked>>
                ELSE IF sh.index < sh.fec_set_index
                THEN /\ LoopReturns(datagram, key, "Err", "index_error", FALSE)
                     /\ UNCHANGED <<fec_blocks, locked>>
                ELSE /\ spawned[key] + decode_count[key] < MaxSpawns
                     /\ IF sh.slot # fec_block.slot
                        THEN /\ fec_blocks' = MapInsert(fec_blocks, key, fec_block)
                             /\ LoopReturns(datagram, key, "Err", "slot_mismatch", FALSE)
                             /\ UNCHANGED locked
                        ELSE IF r.outcome = "duplicate"
                        THEN /\ LoopReturns(datagram, key, "Ok", "duplicate", FALSE)
                             /\ UNCHANGED <<fec_blocks, locked>>
                        ELSE /\ fec_blocks' = MapInsert(fec_blocks, key, r.block)
                             /\ locked' = locked \cup {key}
                             /\ ingress' = Ingress("expire_check", datagram, FALSE, "none")
                             /\ ev' = Event("add_shred", key, "holding", FALSE, NoResult)
    /\ UNCHANGED <<wire, processed_blocks, processed_age, spawned, running,
                   decode_count, gc_due, gc_alive, gc_pc, swept>>

\* socket_task receives a datagram: collect_shred up to its return, or up
\* to add_shred's insertion of the shred under the entry's guard.
IngressReceive(datagram) ==
    /\ ingress.pc = "recv"
    /\ IF datagram.size < SIZE_OF_COMMON_SHRED_HEADER
       THEN /\ LoopReturns(datagram, <<0, 0>>, "Ok", "short", FALSE)
            /\ UNCHANGED <<fec_blocks, locked>>
       ELSE IF ~new_from_serialized_shred(datagram).ok
       THEN /\ LoopReturns(datagram, <<0, 0>>, "Err", "parse_error", FALSE)
            /\ UNCHANGED <<fec_blocks, locked>>
       ELSE LET sh == new_from_serialized_shred(datagram).shred
                key == KeyOf(sh)
                fec_block == IF key \in DOMAIN fec_blocks THEN fec_blocks[key]
                             ELSE FecBlockNew(key[1], key[2])
                r == InsertShred(fec_block, sh)
                started == IF r.block.collection_start = None
                           THEN [r.block EXCEPT !.collection_start = 0]
                           ELSE r.block
            IN  IF key \in processed_blocks
                THEN /\ LoopReturns(datagram, key, "Ok", "processed", FALSE)
                     /\ UNCHANGED <<fec_blocks, locked>>
                ELSE IF sh.index < sh.fec_set_index
                THEN /\ LoopReturns(datagram, key, "Err", "index_error", FALSE)
                     /\ UNCHANGED <<fec_blocks, locked>>
                ELSE /\ spawned[key] + decode_count[key] < MaxSpawns
                     /\ IF sh.slot # fec_block.slot
                        THEN /\ fec_blocks' = MapInsert(fec_blocks, key, fec_block)
                             /\ LoopReturns(datagram, key, "Err", "slot_mismatch", FALSE)
                             /\ UNCHANGED locked
                        ELSE IF r.outcome = "duplicate"
                        THEN /\ LoopReturns(datagram, key, "Ok", "duplicate", FALSE)
                             /\ UNCHANGED <<fec_blocks, locked>>
                        ELSE /\ fec_blocks' = MapInsert(fec_blocks, key, started)
                             /\ locked' = locked \cup {key}
                             /\ ingress' = Ingress("expire_check", datagram, FALSE, "none")
                             /\ ev' = Event("add_shred", key, "holding", FALSE, NoResult)
    /\ UNCHANGED <<wire, processed_blocks, processed_age, spawned, running,
                   decode_count, gc_due, gc_alive, gc_pc, swept>>

\* The key of the shred add_shred is holding the entry of.
HeldKey == KeyOf(new_from_serialized_shred(ingress.datagram).shred)

\* add_shred's in-line expiration: on a block older than 30 s it calls
\* fec_blocks.remove(&key) with the entry's guard still held, which waits
\* for that guard and so never returns.
IngressExpireCheck ==
    /\ ingress.pc = "expire_check"
    /\ IF fec_blocks[HeldKey].collection_start > ExpireSecs
       THEN /\ ingress' = [ingress EXCEPT !.pc = "deadlocked"]
            /\ ev' = Event("add_shred", HeldKey, "blocked", FALSE, NoResult)
       ELSE /\ ingress' = [ingress EXCEPT !.pc = "is_complete"]
            /\ UNCHANGED ev
    /\ UNCHANGED <<wire, fec_blocks, processed_blocks, processed_age, spawned,
                   running, decode_count, locked, gc_due, gc_alive, gc_pc, swept>>

IngressIsComplete_unmarked ==
    /\ ingress.pc = "is_complete"
    /\ ingress' = [ingress EXCEPT !.pc = "drop",
                                  !.should_decode = is_complete(fec_blocks[HeldKey])]
    /\ UNCHANGED <<wire, fec_blocks, processed_blocks, processed_age, spawned,
                   running, decode_count, locked, gc_due, gc_alive, gc_pc, swept, ev>>

\* fec_block.is_complete(processed_blocks), which inserts the key into the
\* ProcessedSet when the block is complete.
IngressIsComplete ==
    /\ ingress.pc = "is_complete"
    /\ LET complete == is_complete(fec_blocks[HeldKey])
       IN  /\ ingress' = [ingress EXCEPT !.pc = "drop", !.should_decode = complete]
           /\ processed_blocks' = IF complete THEN processed_blocks \cup {HeldKey}
                                  ELSE processed_blocks
           /\ processed_age' = IF complete /\ HeldKey \notin processed_blocks
                               THEN MapInsert(processed_age, HeldKey, 0)
                               ELSE processed_age
           /\ swept' = IF complete THEN swept \ {HeldKey} ELSE swept
    /\ UNCHANGED <<wire, fec_blocks, spawned, running, decode_count, locked,
                   gc_due, gc_alive, gc_pc, ev>>

\* drop(fec_block): the guard of the entry is released.
IngressDrop ==
    /\ ingress.pc = "drop"
    /\ locked' = locked \ {HeldKey}
    /\ IF ingress.should_decode
       THEN /\ ingress' = [ingress EXCEPT !.pc = "spawn"]
            /\ UNCHANGED ev
       ELSE LoopReturns(ingress.datagram, HeldKey, "Ok", "inserted", FALSE)
    /\ UNCHANGED <<wire, fec_blocks, processed_blocks, processed_age, spawned,
                   running, decode_count, gc_due, gc_alive, gc_pc, swept>>

\* tokio::task::spawn_blocking: the decode is dispatched and add_shred
\* returns.
IngressSpawn ==
    /\ ingress.pc = "spawn"
    /\ spawned' = [spawned EXCEPT ![HeldKey] = @ + 1]
    /\ LoopReturns(ingress.datagram, HeldKey, "Ok", "inserted", TRUE)
    /\ UNCHANGED <<wire, fec_blocks, processed_blocks, processed_age, running,
                   decode_count, locked, gc_due, gc_alive, gc_pc, swept>>

\* The garbage collector after its sleep: fec_blocks_gc.retain, which waits
\* for the guards of the entries.
GcFecRetain ==
    /\ gc_due
    /\ gc_alive
    /\ gc_pc = "sleep"
    /\ locked = {}
    /\ IF \E k \in DOMAIN fec_blocks : fec_blocks[k].collection_start = None
       THEN /\ gc_alive' = FALSE
            /\ UNCHANGED <<fec_blocks, gc_pc>>
       ELSE /\ fec_blocks' =
                 [ k \in { j \in DOMAIN fec_blocks : FecRetain(fec_blocks[j]) } |->
                     fec_blocks[k] ]
            /\ gc_pc' = "processed_retain"
            /\ UNCHANGED gc_alive
    /\ ev' = Event("garbage_collector", <<0, 0>>, "fec_retain", FALSE, NoResult)
    /\ UNCHANGED <<wire, processed_blocks, processed_age, spawned, running,
                   decode_count, locked, gc_due, ingress, swept>>

\* The garbage collector's processed_blocks_gc.retain, then its next sleep.
GcProcessedRetain ==
    /\ gc_pc = "processed_retain"
    /\ processed_blocks' = { k \in processed_blocks : ProcessedRetain(k) }
    /\ processed_age' =
         [ k \in { j \in processed_blocks : ProcessedRetain(j) } |-> processed_age[k] ]
    /\ swept' = swept \cup { k \in processed_blocks : ~ProcessedRetain(k) }
    /\ gc_pc' = "sleep"
    /\ gc_due' = FALSE
    /\ ev' = Event("garbage_collector", <<0, 0>>, "processed_retain", FALSE, NoResult)
    /\ UNCHANGED <<wire, fec_blocks, spawned, running, decode_count, locked,
                   gc_alive, ingress>>

InitIngest ==
    /\ IdleRoles
    /\ IdleTx
    /\ IdleAlt
    /\ IdleParse
    /\ IdleStream
    /\ wire \in IngestWires
    /\ fec_blocks = <<>>
    /\ processed_blocks = {}
    /\ processed_age = <<>>
    /\ spawned = [ k \in Keys |-> 0 ]
    /\ running = [ k \in Keys |-> 0 ]
    /\ decode_count = [ k \in Keys |-> 0 ]
    /\ locked = {}
    /\ gc_due = FALSE
    /\ gc_alive = TRUE
    /\ ev = NoEvent
    /\ ingress = Ingress("recv", NoDatagram, FALSE, "none")
    /\ gc_pc = "sleep"
    /\ swept = {}

ReceivesDatagram == (\E datagram \in wire : IngressReceive(datagram)) /\ UNCHANGED notIngest

ChecksExpiration == IngressExpireCheck /\ UNCHANGED notIngest

ChecksCompletion == IngressIsComplete /\ UNCHANGED notIngest

DropsEntry == IngressDrop /\ UNCHANGED notIngest

SpawnsDecode == IngressSpawn /\ UNCHANGED notIngest

SweepsBlocks == GcFecRetain /\ UNCHANGED notIngest

SweepsProcessed == GcProcessedRetain /\ UNCHANGED notIngest

NextIngest ==
    \/ ReceivesDatagram
    \/ ChecksExpiration
    \/ ChecksCompletion
    \/ DropsEntry
    \/ SpawnsDecode
    \/ WorkerStart
    \/ WorkerFinish
    \/ Tick
    \/ SweepsBlocks
    \/ SweepsProcessed

SpecIngest == InitIngest /\ [][NextIngest]_vars

\* The datagrams collect_shred rejects before add_shred.
TooShort(datagram) == datagram.size < SIZE_OF_COMMON_SHRED_HEADER

Unparsable(datagram) == ~TooShort(datagram) /\ ~datagram.parsed.ok

Misindexed(datagram) ==
    /\ ~TooShort(datagram)
    /\ datagram.parsed.ok
    /\ datagram.parsed.shred.index < datagram.parsed.shred.fec_set_index

Rejected(datagram) ==
    TooShort(datagram) \/ Unparsable(datagram) \/ Misindexed(datagram)

\* C21 as stated: a datagram that is too short, does not parse or carries a
\* shred with index < fec_set_index leaves the map of blocks and the
\* ProcessedSet unchanged, the first returning Ok and the other two an
\* error, and the loop receives the next datagram.
C21_RejectedDatagram ==
    [][ \A datagram \in wire :
          (IngressReceive(datagram) /\ Rejected(datagram))
            => /\ UNCHANGED <<fec_blocks, processed_blocks>>
               /\ ingress'.ret = IF TooShort(datagram) THEN "Ok" ELSE "Err"
               /\ ingress'.pc = "recv" ]_vars

\* C21 as amended: the same, except that a shred with index < fec_set_index
\* whose (slot, fec_set_index) is in the ProcessedSet is dropped by that
\* gate with Ok before its index is looked at.
C21_RejectedDatagramGated ==
    [][ \A datagram \in wire :
          (IngressReceive(datagram) /\ Rejected(datagram))
            => /\ UNCHANGED <<fec_blocks, processed_blocks>>
               /\ ingress'.ret =
                    IF TooShort(datagram) THEN "Ok"
                    ELSE IF Unparsable(datagram) THEN "Err"
                    ELSE IF KeyOf(datagram.parsed.shred) \in processed_blocks
                    THEN "Ok"
                    ELSE "Err"
               /\ ingress'.pc = "recv" ]_vars

\* Reached: a misindexed shred was rejected with an error while a block of
\* its set was being assembled, and the loop is receiving again.
C21_Witness ==
    /\ ingress.pc = "recv"
    /\ Misindexed(ingress.datagram)
    /\ ingress.ret = "Err"
    /\ HighKey \in DOMAIN fec_blocks
    /\ HighKey \notin processed_blocks

\* C22: collect_shred of a shred whose (slot, fec_set_index) is in the
\* ProcessedSet returns Ok; no block is created or modified, the
\* ProcessedSet stays as it is and no decode is scheduled.
C22_ProcessedGate ==
    [][ \A datagram \in wire :
          (/\ IngressReceive(datagram)
           /\ ~TooShort(datagram)
           /\ datagram.parsed.ok
           /\ KeyOf(datagram.parsed.shred) \in processed_blocks)
            => /\ ingress'.ret = "Ok"
               /\ ingress'.pc = "recv"
               /\ UNCHANGED <<fec_blocks, processed_blocks, spawned, locked>> ]_vars

\* Reached: a shred of the producer's set was turned away by the gate after
\* the decode of its set had removed the block.
C22_Witness ==
    /\ ingress.pc = "recv"
    /\ ev.op = "collect_shred"
    /\ ev.outcome = "processed"
    /\ ingress.ret = "Ok"
    /\ ~Misindexed(ingress.datagram)
    /\ ev.key \in processed_blocks
    /\ ev.key \notin DOMAIN fec_blocks

\* C29: add_shred always releases the guard of the entry and returns,
\* whatever the state of the block, a block older than 30 s included.
C29_AddShredReturns == ingress.pc # "deadlocked"

\* C30: the key of a complete block is in the ProcessedSet before the guard
\* of its entry is released and before the decode is dispatched: no block
\* in the map is complete with its guard free and its key absent from the
\* ProcessedSet, unless a sweep has removed the key since.
C30_MarkedBeforeRelease ==
    /\ \A k \in DOMAIN fec_blocks :
         (is_complete(fec_blocks[k]) /\ k \notin locked)
           => (k \in processed_blocks \/ k \in swept)
    /\ (ingress.pc = "drop" /\ ingress.should_decode)
         => (HeldKey \in locked /\ (HeldKey \in processed_blocks \/ HeldKey \in swept))
    /\ ingress.pc = "spawn"
         => (HeldKey \notin locked /\ (HeldKey \in processed_blocks \/ HeldKey \in swept))

\* Reached: the guard of a complete block has been released, its key is in
\* the ProcessedSet and the decode is about to be dispatched.
C30_Witness ==
    /\ ingress.pc = "spawn"
    /\ HeldKey \in DOMAIN fec_blocks
    /\ is_complete(fec_blocks[HeldKey])
    /\ HeldKey \notin locked
    /\ HeldKey \in processed_blocks
    /\ spawned[HeldKey] = 0

\* C40: every block in the map whose entry's guard is free has
\* collection_start set and holds a shred; the Instant of collection_start
\* is the same after every step in which the block stays in the map (its
\* age grows with the clock only); and the expect of the garbage collector
\* finds collection_start on every block it scans.
C40_CollectionStartSet ==
    [][ /\ \A k \in (DOMAIN fec_blocks') \ locked' :
             /\ fec_blocks'[k].collection_start # None
             /\ MapLen(fec_blocks'[k].data_shreds)
                  + MapLen(fec_blocks'[k].coding_shreds) >= 1
        /\ \A k \in (DOMAIN fec_blocks) \cap (DOMAIN fec_blocks') :
             fec_blocks[k].collection_start # None
               => fec_blocks'[k].collection_start
                    = IF Tick
                      THEN IF fec_blocks[k].collection_start + TickSecs > MaxAge
                           THEN MaxAge
                           ELSE fec_blocks[k].collection_start + TickSecs
                      ELSE fec_blocks[k].collection_start
        /\ gc_alive' ]_vars

\* Reached: the garbage collector has scanned a map that holds a block, a
\* datagram of another set has been received since, and no guard is held.
C40_Witness ==
    /\ gc_pc = "processed_retain"
    /\ gc_alive
    /\ locked = {}
    /\ \E k \in DOMAIN fec_blocks :
         /\ fec_blocks[k].collection_start = TickSecs
         /\ MapLen(fec_blocks[k].data_shreds) + MapLen(fec_blocks[k].coding_shreds) >= 2

====
